---- MODULE Spec2Model ----
(***************************************************************************)
(* Graph state engine of fugue-chat-tree (App.tsx = src/unnamed/part_003,  *)
(* node components in src/components and src/unnamed/part_004).           *)
(*                                                                         *)
(* The React component Flow is modelled as a state machine.  Its useState  *)
(* cells are the variables; every event handler is one action: React runs  *)
(* the handler, applies the state updates it queued as one batch, and      *)
(* flushes the passive effects the commit scheduled (flush the live graph  *)
(* into the active canvas, write the workspace to localStorage) before it  *)
(* dispatches the next event, so those effects are part of the action.     *)
(*                                                                         *)
(* Abstractions: Date.now() is an input t \in 1..MaxClock (the wall clock  *)
(* is not monotonic and has finite resolution, so a value may repeat);     *)
(* `node-${t}` is the pair <<"node", t>>, `canvas-${t}` the number t and   *)
(* the empty string the number 0; optional fields that are absent read as  *)
(* FALSE / 0 / <<>>; positions, display style, timestamps and the callback *)
(* references stored in node data are left out; the viewport is one number.*)
(***************************************************************************)
EXTENDS Integers, Sequences, FiniteSets, TLC

VARIABLES
    nodes,           \* useNodesState: the live node list
    edges,           \* useEdgesState: the live edge list
    viewport,        \* React Flow store: the live viewport
    canvases,        \* useState<Canvas[]>
    activeCanvasId,  \* useState<string>, 0 models ''
    isLoaded,        \* useState(false)
    storage,         \* localStorage: the two keys the program uses
    titleGenerationAttempted,  \* useState<Set<string>>: canvas ids a title was asked for
    titleRequests,   \* the generateCanvasTitle calls made, in order: the canvas id
                     \* each closure holds and whether its promise is still pending
    generating,      \* handleGenerate calls whose request is in flight: [node, canvas, k]
    researching,     \* executeDeepResearch calls in flight: the node id of the
                     \* caller, the local steps array and the call awaited
    last             \* the handler that ran last and its arguments

vars == <<nodes, edges, viewport, canvases, activeCanvasId, isLoaded, storage,
         titleGenerationAttempted, titleRequests, generating, researching, last>>

(***************************************************************************)
(* Bounds                                                                  *)
(***************************************************************************)
MaxClock == 2        \* Date.now() takes the values 1..MaxClock
MaxNodes == 3        \* handlers that add a node are cut off at this many live nodes
MaxEdges == 2        \* onConnect accepts no edge beyond this many live edges
MaxCanvases == 2     \* handlers that add a canvas are cut off at this many canvases
WsNodes == 1         \* in Spec, handleAddChatNode is cut off at this many live nodes
DagNodes == 3        \* nodes of the stored graphs SpecCollapse and SpecConnect start from
DagEdges == 3        \* edges of those graphs, at most
StaleNodes == 2      \* nodes of the stored graphs SpecStale starts from
StaleEdges == 1      \* edges of those graphs, at most
MaxGenerations == 2  \* handleGenerate is cut off at this many requests in flight
EdgeNodes == 2       \* in SpecEdges, nodes are added up to this many live nodes

Times == 1..MaxClock
QuoteTexts == {"q1", "q2"}
Viewports == {0, 1}

NoCanvas == 0
MissingNodeId == <<"node", 0>>     \* an id no live node carries
NullId == <<"", 0>>                \* a null source/target of a Connection

NodeIdSpace == ({"node", "research", "note"} \X Times) \cup {MissingNodeId}

(***************************************************************************)
(* Sequence helpers (Array.prototype.map / filter / find / includes)       *)
(***************************************************************************)
Range(s) == {s[i] : i \in 1..Len(s)}

Includes(s, x) == \E i \in 1..Len(s) : s[i] = x

NodeIds(nds) == {nds[i].id : i \in 1..Len(nds)}

(***************************************************************************)
(* Data model                                                              *)
(***************************************************************************)
\* a node as its handler creates it.  isRoot is set by handleAddChatNode
\* only (a branch node carries a quote instead); status is the research
\* payload's status ("none" on the other variants); error and aiResponse
\* are absent until a run writes them
NewNode(id, type, quote) ==
    [id |-> id, type |-> type, hidden |-> FALSE, collapsed |-> FALSE,
     collapsedCount |-> 0, highlights |-> <<>>, quote |-> quote,
     isRoot |-> (type = "chatNode" /\ quote = ""),
     status |-> IF type = "researchNode" THEN "idle" ELSE "none",
     steps |-> <<>>, error |-> "", aiResponse |-> ""]

\* id of an edge: `e-${source}-${target}` (onBranch) or the id addEdge derives
\* from the connection, `xy-edge__${source}-${target}` (onConnect).  addEdge
\* keeps one edge per source and target, so the pair stands for the id.
EdgeId(e) == <<e.source, e.target>>

NewEdge(source, target) == [source |-> source, target |-> target, hidden |-> FALSE]

NewCanvas(id, title, nds, eds, vp) ==
    [id |-> id, title |-> title, nodes |-> nds, edges |-> eds, viewport |-> vp]

\* what JSON.parse makes of the chosen file: "v2" has version '2.0' and a
\* canvases array, "legacy" has nodes and no version, "other" parses to
\* neither, "garbage" does not parse
FileV2(cs, active) ==
    [kind |-> "v2", canvases |-> cs, activeCanvasId |-> active,
     nodes |-> <<>>, edges |-> <<>>, viewport |-> 0]

FileLegacy(nds, eds, vp) ==
    [kind |-> "legacy", canvases |-> <<>>, activeCanvasId |-> NoCanvas,
     nodes |-> nds, edges |-> eds, viewport |-> vp]

FileOf(kind) ==
    [kind |-> kind, canvases |-> <<>>, activeCanvasId |-> NoCanvas,
     nodes |-> <<>>, edges |-> <<>>, viewport |-> 0]

\* no file downloaded by the call
NoFile == FileOf("none")

\* last: op = the handler, a/b = its node ids, q = its text, v = its flag,
\* c = its canvas id; same = the call before it was the same handler on the
\* same node, text and canvas, and pv = the flag of that call; file = the
\* file the call read (import) or handed to the browser (export), chain = the
\* sequence the call built: the ancestor chain of a generate, the step
\* updates a research run emitted
NoOp == [op |-> "none", a |-> NullId, b |-> NullId, q |-> "", v |-> FALSE, c |-> NoCanvas,
         same |-> FALSE, pv |-> FALSE, file |-> NoFile, chain |-> <<>>]

Did(op, a, b, q, v, c) ==
    LET same == last.op = op /\ last.a = a /\ last.q = q /\ last.c = c
    IN  [op |-> op, a |-> a, b |-> b, q |-> q, v |-> v, c |-> c,
         same |-> same, pv |-> same /\ last.v, file |-> NoFile, chain |-> <<>>]

(***************************************************************************)
(* React Flow store accessors and helpers                                  *)
(***************************************************************************)
MaxOf(S) == IF S = {} THEN 0 ELSE CHOOSE x \in S : \A y \in S : y <= x

\* Date.now() when an id `${prefix}-${t}` is built.  Readings are compared only
\* for equality and only between ids of one prefix, so a reading is either one
\* a live id of that prefix carries or at most one more than the largest of
\* them: larger readings give the same runs with the readings renamed.
Clock(prefix) ==
    {t \in Times :
        t <= 1 + MaxOf({nodes[i].id[2] : i \in {j \in 1..Len(nodes) : nodes[j].id[1] = prefix}})}

HasNode(nds, id) == \E i \in 1..Len(nds) : nds[i].id = id

\* getNode(id): the store's nodeLookup keeps the last node carrying the id
GetNode(nds, id) ==
    nds[CHOOSE i \in 1..Len(nds) :
            /\ nds[i].id = id
            /\ \A j \in (i+1)..Len(nds) : nds[j].id # id]

\* addEdge(edge, eds): an edge between the same source and target (the
\* handles carry no ids) makes it return eds unchanged
addEdge(e, eds) ==
    IF \E i \in 1..Len(eds) : eds[i].source = e.source /\ eds[i].target = e.target
    THEN eds
    ELSE Append(eds, e)

\* currentEdges.filter(e => e.source === curr), in list order
OutgoingEdges(eds, curr) == SelectSeq(eds, LAMBDA e : e.source = curr)

(***************************************************************************)
(* Graph traversal engine                                                  *)
(***************************************************************************)
RECURSIVE canReachFrom(_, _, _, _), canReachLoop(_, _, _, _)

\* onConnect.canReach(from, to, visited): the DFS with its shared visited
\* set; the result carries the set because the callers read it back
canReachFrom(eds, from, to, visited) ==
    IF from = to THEN [found |-> TRUE, visited |-> visited]
    ELSE IF from \in visited THEN [found |-> FALSE, visited |-> visited]
    ELSE canReachLoop(eds, OutgoingEdges(eds, from), to, visited \cup {from})

\* for (const edge of outgoingEdges) if (canReach(edge.target, ...)) return true
canReachLoop(eds, out, to, visited) ==
    IF out = <<>> THEN [found |-> FALSE, visited |-> visited]
    ELSE LET r == canReachFrom(eds, Head(out).target, to, visited)
         IN  IF r.found THEN r ELSE canReachLoop(eds, Tail(out), to, r.visited)

\* a reachability test that looks one edge ahead only
canReachDirect(eds, from, to) ==
    from = to \/ \E i \in 1..Len(eds) : eds[i].source = from /\ eds[i].target = to

\* a reachability test that follows the edges in both directions
RECURSIVE connectedSet(_, _)
connectedSet(eds, S) ==
    LET T == S \cup {eds[i].target : i \in {j \in 1..Len(eds) : eds[j].source \in S}}
                \cup {eds[i].source : i \in {j \in 1..Len(eds) : eds[j].target \in S}}
    IN  IF T = S THEN S ELSE connectedSet(eds, T)

canReachEitherWay(eds, from, to) == to \in connectedSet(eds, {from})

canReach(eds, from, to) == canReachFrom(eds, from, to, {}).found

RECURSIVE descendantBFSAddsVisited(_, _, _, _, _, _)

\* a BFS that adds every target to the descendants, visited or not
descendantBFSAddsVisited(eds, queue, visited, dn, de, log) ==
    IF queue = <<>> THEN [nodeIds |-> dn, edgeIds |-> de, log |-> log]
    ELSE LET curr == Head(queue) IN
         IF curr \in visited
         THEN descendantBFSAddsVisited(eds, Tail(queue), visited, dn, de,
                                       Append(log, [node |-> curr, expanded |-> FALSE]))
         ELSE LET vis == visited \cup {curr}
                  out == OutgoingEdges(eds, curr)
                  fresh == SelectSeq(out, LAMBDA e : e.target \notin vis)
              IN  descendantBFSAddsVisited(eds,
                                Tail(queue) \o [i \in 1..Len(fresh) |-> fresh[i].target],
                                vis,
                                dn \cup {out[i].target : i \in 1..Len(out)},
                                de \cup {EdgeId(out[i]) : i \in 1..Len(out)},
                                Append(log, [node |-> curr, expanded |-> TRUE]))

RECURSIVE descendantBFS(_, _, _, _, _, _)

\* onCollapse's BFS: the queue loop, returning descendantNodeIds/descendantEdgeIds;
\* log lists the passes of the loop: the node taken off the queue and whether
\* the pass went on to its outgoing edges
descendantBFS(eds, queue, visited, dn, de, log) ==
    IF queue = <<>> THEN [nodeIds |-> dn, edgeIds |-> de, log |-> log]
    ELSE LET curr == Head(queue) IN
         IF curr \in visited
         THEN descendantBFS(eds, Tail(queue), visited, dn, de,
                            Append(log, [node |-> curr, expanded |-> FALSE]))
         ELSE LET vis == visited \cup {curr}
                  out == OutgoingEdges(eds, curr)
                  fresh == SelectSeq(out, LAMBDA e : e.target \notin vis)
              IN  descendantBFS(eds,
                                Tail(queue) \o [i \in 1..Len(fresh) |-> fresh[i].target],
                                vis,
                                dn \cup {fresh[i].target : i \in 1..Len(fresh)},
                                de \cup {EdgeId(out[i]) : i \in 1..Len(out)},
                                Append(log, [node |-> curr, expanded |-> TRUE]))

\* a traversal that never enqueues the targets it finds
DescendantsChildrenOnly(eds, nodeId) ==
    LET out == OutgoingEdges(eds, nodeId)
    IN  [nodeIds |-> {out[i].target : i \in 1..Len(out)} \ {nodeId},
         edgeIds |-> {EdgeId(out[i]) : i \in 1..Len(out)},
         log |-> <<[node |-> nodeId, expanded |-> TRUE]>>]

\* a traversal that starts from every node, whatever nodeId is
DescendantsOfAnyNode(eds, nodeId) ==
    [nodeIds |-> {eds[i].target : i \in 1..Len(eds)},
     edgeIds |-> {EdgeId(eds[i]) : i \in 1..Len(eds)},
     log |-> <<[node |-> nodeId, expanded |-> TRUE]>>]

Descendants(eds, nodeId) == descendantBFS(eds, <<nodeId>>, {}, {}, {}, <<>>)

(***************************************************************************)
(* Mutation engine: the state updates of the handlers, as functions        *)
(***************************************************************************)
\* onBranch step 1: record the highlight on the chat source, once per text
branchHighlight(nds, quoteText, sourceNodeId) ==
    [i \in 1..Len(nds) |->
        IF /\ nds[i].id = sourceNodeId
           /\ nds[i].type = "chatNode"
           /\ ~Includes(nds[i].highlights, quoteText)
        THEN [nds[i] EXCEPT !.highlights = Append(@, quoteText)]
        ELSE nds[i]]

\* onBranch: the node list after the call (sourceNode is what getNode returned)
branchNodes(nds, quoteText, sourceNodeId, t) ==
    LET sourceNode == GetNode(nds, sourceNodeId)
        marked == IF sourceNode.type = "chatNode"
                  THEN branchHighlight(nds, quoteText, sourceNodeId)
                  ELSE nds
    IN  Append(marked, NewNode(<<"node", t>>, "chatNode", quoteText))

\* onBranch: the edge list after the call
branchEdges(eds, sourceNodeId, t) ==
    addEdge(NewEdge(sourceNodeId, <<"node", t>>), eds)

\* onConnect: the edge list after the call (unchanged when rejected)
connectEdges(eds, source, target) ==
    IF source = NullId \/ target = NullId THEN eds
    ELSE IF canReach(eds, target, source) THEN eds
    ELSE addEdge(NewEdge(source, target), eds)

\* onCollapse: setEdges(eds => eds.map(...))
collapseEdges(eds, nodeId, shouldCollapse) ==
    LET d == Descendants(eds, nodeId)
    IN  [i \in 1..Len(eds) |->
            IF EdgeId(eds[i]) \in d.edgeIds
            THEN [eds[i] EXCEPT !.hidden = shouldCollapse]
            ELSE eds[i]]

\* an update that writes the descendant count on expand as well
collapseNodesKeepCount(nds, eds, nodeId, shouldCollapse) ==
    LET d == Descendants(eds, nodeId)
    IN  [i \in 1..Len(nds) |->
            IF nds[i].id \in d.nodeIds
            THEN [nds[i] EXCEPT !.hidden = shouldCollapse]
            ELSE IF nds[i].id = nodeId
            THEN [nds[i] EXCEPT !.collapsed = shouldCollapse,
                                !.collapsedCount = Cardinality(d.nodeIds)]
            ELSE nds[i]]

\* an update that flips the hidden flag of the descendants instead of
\* setting it
collapseNodesToggle(nds, eds, nodeId, shouldCollapse) ==
    LET d == Descendants(eds, nodeId)
    IN  [i \in 1..Len(nds) |->
            IF nds[i].id \in d.nodeIds
            THEN [nds[i] EXCEPT !.hidden = ~@]
            ELSE IF nds[i].id = nodeId
            THEN [nds[i] EXCEPT !.collapsed = shouldCollapse,
                                !.collapsedCount =
                                    IF shouldCollapse THEN Cardinality(d.nodeIds) ELSE 0]
            ELSE nds[i]]

\* onCollapse: setNodes(nds => nds.map(...)), the closure computed on the
\* edges as they were when the handler started
collapseNodes(nds, eds, nodeId, shouldCollapse) ==
    LET d == Descendants(eds, nodeId)
    IN  [i \in 1..Len(nds) |->
            IF nds[i].id \in d.nodeIds
            THEN [nds[i] EXCEPT !.hidden = shouldCollapse]
            ELSE IF nds[i].id = nodeId
            THEN [nds[i] EXCEPT !.collapsed = shouldCollapse,
                                !.collapsedCount =
                                    IF shouldCollapse THEN Cardinality(d.nodeIds) ELSE 0]
            ELSE nds[i]]

\* deleteElements({nodes: [{id}], edges}): React Flow removes the nodes with
\* the id, the edges connected to them and the edges listed
deleteElementsNodes(nds, id) == SelectSeq(nds, LAMBDA n : n.id # id)

\* a delete that removes the listed edges only
deleteElementsEdgesListedOnly(eds, id, listed) ==
    SelectSeq(eds, LAMBDA e : EdgeId(e) \notin listed)

deleteElementsEdges(eds, id, listed) ==
    SelectSeq(eds, LAMBDA e : e.source # id /\ e.target # id /\ EdgeId(e) \notin listed)

\* edges.filter(edge => edge.source === id || edge.target === id), as ids
connectedEdges(eds, id) ==
    {EdgeId(eds[i]) : i \in {j \in 1..Len(eds) : eds[j].source = id \/ eds[j].target = id}}

(***************************************************************************)
(* Passive effects                                                         *)
(***************************************************************************)
Absent == [kind |-> "absent", canvases |-> <<>>, activeCanvasId |-> NoCanvas]

Stored(cs, active) == [kind |-> "ok", canvases |-> cs, activeCanvasId |-> active]

\* saveCurrentCanvas: the canvas list after its setCanvases update
saveCurrentCanvas(cs, active, nds, eds, vp) ==
    IF active = NoCanvas THEN cs
    ELSE [i \in 1..Len(cs) |->
            IF cs[i].id = active
            THEN [cs[i] EXCEPT !.nodes = nds, !.edges = eds, !.viewport = vp]
            ELSE cs[i]]

\* effect on [nodes, edges, isLoaded, activeCanvasId]: the canvas list it leaves
flushEffect(cs, loaded, active, nds, eds, vp) ==
    IF ~loaded \/ active = NoCanvas THEN cs
    ELSE saveCurrentCanvas(cs, active, nds, eds, vp)

\* a store effect without its guard
storeEffectUnguarded(st, cs, loaded, active) == [st EXCEPT !.cur = Stored(cs, active)]

\* effect on [canvases, activeCanvasId, isLoaded]: the storage it leaves
storeEffect(st, cs, loaded, active) ==
    IF ~loaded \/ Len(cs) = 0 THEN st
    ELSE [st EXCEPT !.cur = Stored(cs, active)]

HasCanvas(cs, id) == \E i \in 1..Len(cs) : cs[i].id = id

\* canvases.find(c => c.id === id): the first canvas carrying the id
FindCanvas(cs, id) == cs[CHOOSE i \in 1..Len(cs) : cs[i].id = id /\ \A j \in 1..(i-1) : cs[j].id # id]

\* titles the program itself gives a canvas, `New Canvas - ${time}`: the one
\* built when the canvas was created and one built at a later time of day
DefaultTitles == {"New Canvas", "New Canvas - later"}

\* title.startsWith('New Canvas')
startsWithNewCanvas(title) == title \in DefaultTitles

\* nodes.find(n => n.type === 'chatNode' && n.data.isRoot && n.data.aiResponse)
HasAnsweredRoot(nds) ==
    \E i \in 1..Len(nds) :
        nds[i].type = "chatNode" /\ nds[i].isRoot /\ nds[i].aiResponse # ""

\* an effect that does not look at the canvases it has asked a title for
titleEffectUnguarded(requests) ==
    IF /\ activeCanvasId' # NoCanvas
       /\ HasCanvas(canvases', activeCanvasId')
       /\ startsWithNewCanvas(FindCanvas(canvases', activeCanvasId').title)
       /\ HasAnsweredRoot(nodes')
    THEN /\ titleGenerationAttempted' = titleGenerationAttempted \cup {activeCanvasId'}
         /\ titleRequests' = Append(requests, [canvas |-> activeCanvasId', pending |-> TRUE])
    ELSE /\ titleGenerationAttempted' = titleGenerationAttempted
         /\ titleRequests' = requests

\* the auto-title effect on [nodes, activeCanvasId, canvases,
\* titleGenerationAttempted], run on the state the commit left: requests is
\* the request list the handler itself left
titleEffect(requests) ==
    IF /\ activeCanvasId' # NoCanvas
       /\ HasCanvas(canvases', activeCanvasId')
       /\ startsWithNewCanvas(FindCanvas(canvases', activeCanvasId').title)
       /\ activeCanvasId' \notin titleGenerationAttempted
       /\ HasAnsweredRoot(nodes')
    THEN /\ titleGenerationAttempted' = titleGenerationAttempted \cup {activeCanvasId'}
         /\ titleRequests' = Append(requests, [canvas |-> activeCanvasId', pending |-> TRUE])
    ELSE /\ titleGenerationAttempted' = titleGenerationAttempted
         /\ titleRequests' = requests

\* no commit, or a commit that leaves the auto-title effect's inputs alone
TitleFrame == UNCHANGED <<titleGenerationAttempted, titleRequests, generating, researching>>

\* the page goes away: the component state and the pending promises with it
TitleReset ==
    /\ titleGenerationAttempted' = {}
    /\ titleRequests' = [k \in 1..Len(titleRequests) |->
                            [titleRequests[k] EXCEPT !.pending = FALSE]]
    /\ generating' = {} /\ researching' = {}

\* the effects of a commit that changed nodes, edges or activeCanvasId: cs and
\* st are the canvas list and the storage the handler itself left
EffectsOfCommit(cs, st) ==
    LET flushed == flushEffect(cs, isLoaded', activeCanvasId', nodes', edges', viewport')
    IN  /\ canvases' = flushed
        /\ storage' = storeEffect(st, flushed, isLoaded', activeCanvasId')
        /\ titleEffect(titleRequests)

\* the same, for a handler that starts or ends no generation or research run
FlushAndStore(cs, st) == EffectsOfCommit(cs, st) /\ UNCHANGED <<generating, researching>>

\* the effects of a commit that changed the canvas list alone
StoreOnly(cs, st) ==
    /\ canvases' = cs
    /\ storage' = storeEffect(st, cs, isLoaded', activeCanvasId')
    /\ titleEffect(titleRequests)
    /\ UNCHANGED <<generating, researching>>

(***************************************************************************)
(* Handlers on the live graph                                              *)
(***************************************************************************)
GraphFrame == UNCHANGED <<viewport, activeCanvasId, isLoaded>>

NoCommit ==
    UNCHANGED <<nodes, edges, viewport, canvases, activeCanvasId, isLoaded, storage,
                titleGenerationAttempted, titleRequests, generating, researching>>

handleAddChatNode ==
    /\ isLoaded /\ Len(nodes) < MaxNodes
    /\ \E t \in Clock("node") :
          /\ nodes' = Append(nodes, NewNode(<<"node", t>>, "chatNode", ""))
          /\ last' = Did("addNode", <<"node", t>>, NullId, "", FALSE, NoCanvas)
    /\ UNCHANGED edges /\ GraphFrame
    /\ FlushAndStore(canvases, storage)

handleAddResearchNode ==
    /\ isLoaded /\ Len(nodes) < MaxNodes
    /\ \E t \in Clock("research") :
          /\ nodes' = Append(nodes, NewNode(<<"research", t>>, "researchNode", ""))
          /\ last' = Did("addNode", <<"research", t>>, NullId, "", FALSE, NoCanvas)
    /\ UNCHANGED edges /\ GraphFrame
    /\ FlushAndStore(canvases, storage)

handleAddNoteNode ==
    /\ isLoaded /\ Len(nodes) < MaxNodes
    /\ \E t \in Clock("note") :
          /\ nodes' = Append(nodes, NewNode(<<"note", t>>, "noteNode", ""))
          /\ last' = Did("addNode", <<"note", t>>, NullId, "", FALSE, NoCanvas)
    /\ UNCHANGED edges /\ GraphFrame
    /\ FlushAndStore(canvases, storage)

\* onBranch(quoteText, sourceNodeId); v records whether the source was found
onBranch ==
    /\ isLoaded /\ Len(nodes) < MaxNodes
    /\ \E quoteText \in QuoteTexts, sourceNodeId \in NodeIds(nodes) \cup {MissingNodeId} :
          IF ~HasNode(nodes, sourceNodeId)
          THEN /\ last' = Did("branch", sourceNodeId, NullId, quoteText, FALSE, NoCanvas)
               /\ NoCommit
          ELSE \E t \in Clock("node") :
               /\ nodes' = branchNodes(nodes, quoteText, sourceNodeId, t)
               /\ edges' = branchEdges(edges, sourceNodeId, t)
               /\ last' = Did("branch", sourceNodeId, <<"node", t>>, quoteText, TRUE, NoCanvas)
               /\ GraphFrame
               /\ FlushAndStore(canvases, storage)

\* onConnect({source, target}); v records whether setEdges was reached
onConnect(maxEdges) ==
    /\ isLoaded
    /\ \E source \in NodeIds(nodes), target \in NodeIds(nodes) :
          LET accepted == ~canReach(edges, target, source)
          IN  /\ accepted => Len(edges) < maxEdges
              /\ last' = Did("connect", source, target, "", accepted, NoCanvas)
              /\ IF accepted
                 THEN /\ edges' = connectEdges(edges, source, target)
                      /\ UNCHANGED nodes /\ GraphFrame
                      /\ FlushAndStore(canvases, storage)
                 ELSE /\ edges' = connectEdges(edges, source, target)
                      /\ UNCHANGED <<nodes, viewport, canvases, activeCanvasId, isLoaded, storage>>
                      /\ TitleFrame

\* onCollapse(nodeId, shouldCollapse)
onCollapse ==
    /\ isLoaded
    /\ \E nodeId \in NodeIds(nodes) \cup {MissingNodeId}, shouldCollapse \in BOOLEAN :
          /\ edges' = collapseEdges(edges, nodeId, shouldCollapse)
          /\ nodes' = collapseNodes(nodes, edges, nodeId, shouldCollapse)
          /\ last' = Did("collapse", nodeId, NullId, "", shouldCollapse, NoCanvas)
    /\ GraphFrame
    /\ FlushAndStore(canvases, storage)

\* ChatNode.handleDelete: deleteElements({ nodes: [{ id }] })
ChatNodeHandleDelete ==
    /\ isLoaded
    /\ \E i \in 1..Len(nodes) :
          /\ nodes[i].type = "chatNode"
          /\ nodes' = deleteElementsNodes(nodes, nodes[i].id)
          /\ edges' = deleteElementsEdges(edges, nodes[i].id, {})
          /\ last' = Did("deleteNode", nodes[i].id, NullId, "", FALSE, NoCanvas)
    /\ GraphFrame
    /\ FlushAndStore(canvases, storage)

\* NoteNode.handleDelete: deleteElements({ nodes: [{ id }], edges: connectedEdges })
NoteNodeHandleDelete ==
    /\ isLoaded
    /\ \E i \in 1..Len(nodes) :
          /\ nodes[i].type = "noteNode"
          /\ nodes' = deleteElementsNodes(nodes, nodes[i].id)
          /\ edges' = deleteElementsEdges(edges, nodes[i].id, connectedEdges(edges, nodes[i].id))
          /\ last' = Did("deleteNode", nodes[i].id, NullId, "", FALSE, NoCanvas)
    /\ GraphFrame
    /\ FlushAndStore(canvases, storage)

\* ResearchNode.handleDelete: its first statement calls the hook useReactFlow()
\* from an event handler; React throws there, deleteElements is never reached
ResearchNodeHandleDelete ==
    /\ isLoaded
    /\ \E i \in 1..Len(nodes) :
          /\ nodes[i].type = "researchNode"
          /\ last' = Did("deleteNode", nodes[i].id, NullId, "", FALSE, NoCanvas)
    /\ NoCommit

\* ChatNode.handleGenerate, the while (true) loop: currentId walks up the
\* first incoming edge; seen holds the values currentId has had.  When the
\* parent is one of them the loop has come back to where it was and, the
\* edge list being fixed, never ends: returns is FALSE.
RECURSIVE ancestorWalkFrom(_, _, _, _, _)
ancestorWalkFrom(nds, eds, currentId, ancestorChain, seen) ==
    LET parentEdges == SelectSeq(eds, LAMBDA e : e.target = currentId)
    IN  IF parentEdges = <<>> THEN [returns |-> TRUE, chain |-> ancestorChain]
        ELSE LET parentNodes == SelectSeq(nds, LAMBDA n : n.id = parentEdges[1].source)
             IN  IF parentNodes = <<>> THEN [returns |-> TRUE, chain |-> ancestorChain]
                 ELSE IF parentNodes[1].id \in seen THEN [returns |-> FALSE, chain |-> <<>>]
                 ELSE ancestorWalkFrom(nds, eds, parentNodes[1].id,
                                       <<parentNodes[1]>> \o ancestorChain,
                                       seen \cup {parentNodes[1].id})

ancestorWalk(nds, eds, id) == ancestorWalkFrom(nds, eds, id, <<>>, {id})

\* an update that reaches no node
updateNodeDataDropped(nds, id, patch) == nds

\* updateNodeData(id, patch) of @xyflow/react: every node carrying the id
\* gets the fields of patch
updateNodeData(nds, id, patch) ==
    [i \in 1..Len(nds) |->
        IF nds[i].id = id
        THEN [f \in DOMAIN nds[i] |-> IF f \in DOMAIN patch THEN patch[f] ELSE nds[i][f]]
        ELSE nds[i]]

\* the text a completed generation produced
Responses == {"r"}

\* the requests of a node's handleGenerate calls that are in flight
RequestsOf(id) == {g \in generating : g.node = id /\ g.canvas = activeCanvasId}

\* ChatNode.handleGenerate up to the request, for a chat node on screen: it
\* syncs the input text (a field left out here, so the node list keeps its
\* value), builds the ancestor chain and sends the request.  The Generate
\* button is disabled while the node generates; the Enter key of the
\* textarea calls the handler whatever the node is doing, and the handler
\* does not look at isGenerating.  v records whether the loop ended; when
\* it does not, the handler never returns, nothing is committed and no
\* request is sent
ChatNodeHandleGenerate ==
    /\ isLoaded /\ Cardinality(generating) < MaxGenerations
    /\ UNCHANGED researching
    /\ \E i \in 1..Len(nodes), byEnter \in BOOLEAN :
          /\ nodes[i].type = "chatNode" /\ ~nodes[i].hidden
          /\ byEnter \/ \A g \in generating : g.node # nodes[i].id
          /\ LET walk == ancestorWalk(nodes, edges, nodes[i].id)
                 k == CHOOSE n \in 1..MaxGenerations :
                         /\ \A g \in RequestsOf(nodes[i].id) : g.k # n
                         /\ \A m \in 1..(n - 1) : \E g \in RequestsOf(nodes[i].id) : g.k = m
             IN  /\ last' = [Did("generate", nodes[i].id, NullId, "", walk.returns, NoCanvas)
                               EXCEPT !.chain = walk.chain]
                 /\ IF walk.returns
                    THEN /\ generating' = generating \cup
                              {[node |-> nodes[i].id, canvas |-> activeCanvasId, k |-> k]}
                         /\ UNCHANGED <<nodes, edges>> /\ GraphFrame
                         /\ EffectsOfCommit(canvases, storage)
                    ELSE NoCommit

\* the request of a handleGenerate call ends: with a text, which
\* updateNodeData(id, { aiResponse }) writes on the live nodes carrying the
\* id the call was made for (no change, and no commit, when there is none),
\* or with an error, which only the component shows.  v records success,
\* c the canvas that was active when the call was made
ChatGenerationEnds ==
    /\ isLoaded
    /\ UNCHANGED researching
    /\ \E g \in generating, ok \in BOOLEAN, fullText \in Responses :
          /\ generating' = generating \ {g}
          /\ last' = Did("generated", g.node, NullId, fullText, ok, g.canvas)
          /\ IF ok /\ HasNode(nodes, g.node)
             THEN /\ nodes' = updateNodeData(nodes, g.node, [aiResponse |-> fullText])
                  /\ UNCHANGED edges /\ GraphFrame
                  /\ EffectsOfCommit(canvases, storage)
             ELSE UNCHANGED <<nodes, edges, viewport, canvases, activeCanvasId, isLoaded,
                              storage, titleGenerationAttempted, titleRequests>>

\* the input phase of a research node (textarea and Start Research button)
\* is rendered while its status is idle, and only for a node on screen
CanStartResearch(n) == n.type = "researchNode" /\ ~n.hidden /\ n.status = "idle"

\* executeDeepResearch: the initial steps array and the assignments made to
\* it after each stage (the labels are left out)
InitialSteps == <<"running", "pending", "pending", "pending">>

afterQueryExpansion(steps) == [steps EXCEPT ![1] = "done", ![2] = "running"]

\* a run that marks the next step running without closing the one before
afterSearchLeavesRunning(steps) == [steps EXCEPT ![3] = "running"]

afterSearch(steps) == [steps EXCEPT ![2] = "done", ![3] = "running"]

afterAggregation(steps) == [steps EXCEPT ![3] = "done", ![4] = "running"]

afterSynthesis(steps) == [steps EXCEPT ![4] = "done"]

\* onStepUpdate for each of the updates, in order
RECURSIVE applyStepUpdates(_, _, _)
applyStepUpdates(nds, id, updates) ==
    IF updates = <<>> THEN nds
    ELSE applyStepUpdates(updateNodeData(nds, id, [steps |-> Head(updates)]), id, Tail(updates))

\* ResearchNode.handleSearch and the part of executeDeepResearch that runs
\* before its first await.  With both API keys the initial steps are
\* emitted and the run waits for the search queries ("search").  With a key
\* missing executeDeepResearch calls onError and returns, and handleSearch
\* goes on past its await at once: the run is over ("researchEnd", v = it
\* failed)
ResearchNodeHandleSearch ==
    /\ isLoaded
    /\ \E i \in 1..Len(nodes), keys \in BOOLEAN :
          /\ CanStartResearch(nodes[i])
          /\ LET id == nodes[i].id
                 started == updateNodeData(nodes, id, [status |-> "running", steps |-> <<>>])
             IN  IF keys
                 THEN /\ nodes' = applyStepUpdates(started, id, <<InitialSteps>>)
                      /\ researching' = researching \cup
                            {[node |-> id, steps |-> InitialSteps, awaiting |-> "queries"]}
                      /\ last' = [Did("search", id, NullId, "", TRUE, NoCanvas)
                                    EXCEPT !.chain = <<InitialSteps>>]
                 ELSE /\ nodes' = updateNodeData(
                                     updateNodeData(started, id,
                                                    [error |-> "err", status |-> "error"]),
                                     id, [status |-> "completed"])
                      /\ UNCHANGED researching
                      /\ last' = Did("researchEnd", id, NullId, "", TRUE, NoCanvas)
    /\ UNCHANGED <<edges, generating>> /\ GraphFrame
    /\ EffectsOfCommit(canvases, storage)

\* the call a run awaits resolves (ok) or throws.  On success the run
\* updates its steps array and emits it, twice after the search (the
\* aggregation has no await), and waits for the next call; after the
\* synthesis it returns.  A throw goes to the catch, which calls onError.
\* When executeDeepResearch has returned handleSearch goes on past its
\* await; nothing runs between the callback and the continuation, so the
\* updates are one step.  v records whether the run failed, chain the
\* updates emitted; with no live node of the id nothing is committed
ResearchRunResumes ==
    /\ isLoaded
    /\ \E r \in researching, ok \in BOOLEAN :
          LET id == r.node
              emitted ==
                  IF ~ok THEN <<>>
                  ELSE CASE r.awaiting = "queries" -> <<afterQueryExpansion(r.steps)>>
                         [] r.awaiting = "search" ->
                               <<afterSearch(r.steps), afterAggregation(afterSearch(r.steps))>>
                         [] r.awaiting = "synthesis" -> <<afterSynthesis(r.steps)>>
              returns == ~ok \/ r.awaiting = "synthesis"
              next == CASE r.awaiting = "queries" -> "search"
                        [] r.awaiting = "search" -> "synthesis"
                        [] r.awaiting = "synthesis" -> "done"
              stepped == applyStepUpdates(nodes, id, emitted)
              afterCallbacks ==
                  IF ~ok THEN updateNodeData(stepped, id, [error |-> "err", status |-> "error"])
                  ELSE stepped
          IN  /\ researching' =
                    IF returns THEN researching \ {r}
                    ELSE (researching \ {r}) \cup
                           {[r EXCEPT !.steps = emitted[Len(emitted)], !.awaiting = next]}
              /\ last' = [Did(IF returns THEN "researchEnd" ELSE "researchStep",
                              id, NullId, "", ~ok, NoCanvas)
                            EXCEPT !.chain = emitted]
              /\ IF HasNode(nodes, id)
                 THEN /\ nodes' = IF returns
                                  THEN updateNodeData(afterCallbacks, id, [status |-> "completed"])
                                  ELSE afterCallbacks
                      /\ UNCHANGED <<edges, generating>> /\ GraphFrame
                      /\ EffectsOfCommit(canvases, storage)
                 ELSE UNCHANGED <<nodes, edges, viewport, canvases, activeCanvasId, isLoaded,
                                  storage, titleGenerationAttempted, titleRequests, generating>>

\* the user pans or zooms: React Flow moves the store's viewport, no React state changes
PanZoom ==
    /\ isLoaded
    /\ \E vp \in Viewports \ {viewport} : viewport' = vp
    /\ last' = Did("panZoom", NullId, NullId, "", FALSE, NoCanvas)
    /\ UNCHANGED <<nodes, edges, canvases, activeCanvasId, isLoaded, storage>>
    /\ TitleFrame

(***************************************************************************)
(* Mount: the load effect and the effects of the commit it causes          *)
(***************************************************************************)
AbsentOld == [kind |-> "absent", nodes |-> <<>>, edges |-> <<>>, viewport |-> 0]

StoredOld(nds, eds, vp) == [kind |-> "ok", nodes |-> nds, edges |-> eds, viewport |-> vp]

\* Date.now() when a canvas id is built (see Clock)
CanvasClock == {t \in Times : t <= 1 + MaxOf({canvases[i].id : i \in 1..Len(canvases)})}

\* load effect, current format: STORAGE_KEY parses and holds a canvas
LoadCurrent ==
    /\ storage.cur.kind = "ok" /\ Len(storage.cur.canvases) > 0
    /\ activeCanvasId' = storage.cur.activeCanvasId
    /\ IF HasCanvas(storage.cur.canvases, storage.cur.activeCanvasId)
       THEN LET activeCanvas == FindCanvas(storage.cur.canvases, storage.cur.activeCanvasId)
            IN  /\ nodes' = activeCanvas.nodes
                /\ edges' = activeCanvas.edges
                /\ viewport' = activeCanvas.viewport
       ELSE UNCHANGED <<nodes, edges, viewport>>
    /\ isLoaded' = TRUE
    /\ FlushAndStore(storage.cur.canvases, storage)

\* a migration that leaves the legacy key in place
LoadLegacyKeepsKey ==
    /\ ~(storage.cur.kind = "ok" /\ Len(storage.cur.canvases) > 0)
    /\ storage.old.kind = "ok"
    /\ \E t \in CanvasClock :
          /\ activeCanvasId' = t
          /\ nodes' = storage.old.nodes
          /\ edges' = storage.old.edges
          /\ viewport' = storage.old.viewport
          /\ isLoaded' = TRUE
          /\ FlushAndStore(<<NewCanvas(t, "Migrated Canvas", storage.old.nodes,
                                        storage.old.edges, storage.old.viewport)>>,
                           storage)

\* a migration that does not look at the versioned key first
LoadLegacyFirst ==
    /\ storage.old.kind = "ok"
    /\ \E t \in CanvasClock :
          /\ activeCanvasId' = t
          /\ nodes' = storage.old.nodes
          /\ edges' = storage.old.edges
          /\ viewport' = storage.old.viewport
          /\ isLoaded' = TRUE
          /\ FlushAndStore(<<NewCanvas(t, "Migrated Canvas", storage.old.nodes,
                                        storage.old.edges, storage.old.viewport)>>,
                           [storage EXCEPT !.old = AbsentOld])

\* load effect, migration: OLD_STORAGE_KEY parses and holds nodes
LoadLegacy ==
    /\ ~(storage.cur.kind = "ok" /\ Len(storage.cur.canvases) > 0)
    /\ storage.old.kind = "ok"
    /\ \E t \in CanvasClock :
          /\ activeCanvasId' = t
          /\ nodes' = storage.old.nodes
          /\ edges' = storage.old.edges
          /\ viewport' = storage.old.viewport
          /\ isLoaded' = TRUE
          /\ FlushAndStore(<<NewCanvas(t, "Migrated Canvas", storage.old.nodes,
                                        storage.old.edges, storage.old.viewport)>>,
                           [storage EXCEPT !.old = AbsentOld])

\* load effect, no saved state: create the initial canvas
LoadFresh ==
    /\ ~(storage.cur.kind = "ok" /\ Len(storage.cur.canvases) > 0)
    /\ storage.old.kind # "ok"
    /\ \E t \in CanvasClock :
          /\ activeCanvasId' = t
          /\ isLoaded' = TRUE
          /\ UNCHANGED <<nodes, edges, viewport>>
          /\ FlushAndStore(<<NewCanvas(t, "New Canvas", <<>>, <<>>, 0)>>, storage)

LoadEffect ==
    /\ ~isLoaded
    /\ (LoadCurrent \/ LoadLegacy \/ LoadFresh)
    /\ last' = Did("load", NullId, NullId, "", FALSE, NoCanvas)

\* the component before its first effect runs
Unmounted ==
    /\ nodes = <<>> /\ edges = <<>> /\ viewport = 0
    /\ canvases = <<>> /\ activeCanvasId = NoCanvas
    /\ isLoaded = FALSE
    /\ titleGenerationAttempted = {} /\ titleRequests = <<>>
    /\ generating = {} /\ researching = {}
    /\ last = NoOp

\* the user reloads the page: the component state is gone, localStorage stays
Reload ==
    /\ isLoaded
    /\ nodes' = <<>> /\ edges' = <<>> /\ viewport' = 0
    /\ canvases' = <<>> /\ activeCanvasId' = NoCanvas
    /\ isLoaded' = FALSE
    /\ last' = Did("reload", NullId, NullId, "", FALSE, NoCanvas)
    /\ UNCHANGED storage
    /\ TitleReset

(***************************************************************************)
(* Canvas/workspace manager                                                *)
(***************************************************************************)
CanvasIds(cs) == {cs[i].id : i \in 1..Len(cs)}

RenameTitles == {"Renamed"}

handleNewCanvas ==
    /\ isLoaded /\ Len(canvases) < MaxCanvases
    /\ \E t \in CanvasClock :
          /\ activeCanvasId' = t
          /\ nodes' = <<>> /\ edges' = <<>> /\ viewport' = 0
          /\ UNCHANGED isLoaded
          /\ FlushAndStore(Append(saveCurrentCanvas(canvases, activeCanvasId, nodes, edges, viewport),
                                  NewCanvas(t, "New Canvas", <<>>, <<>>, 0)),
                           storage)
          /\ last' = Did("newCanvas", NullId, NullId, "", FALSE, t)

\* handleSelectCanvas(canvasId); v records whether the switch took place
handleSelectCanvas ==
    /\ isLoaded
    /\ \E canvasId \in CanvasIds(canvases) :
          IF canvasId = activeCanvasId
          THEN /\ last' = Did("selectCanvas", NullId, NullId, "", FALSE, canvasId)
               /\ NoCommit
          ELSE LET selectedCanvas == FindCanvas(canvases, canvasId)
               IN  /\ nodes' = selectedCanvas.nodes
                   /\ edges' = selectedCanvas.edges
                   /\ viewport' = selectedCanvas.viewport
                   /\ activeCanvasId' = canvasId
                   /\ UNCHANGED isLoaded
                   /\ FlushAndStore(saveCurrentCanvas(canvases, activeCanvasId, nodes, edges, viewport),
                                    storage)
                   /\ last' = Did("selectCanvas", NullId, NullId, "", TRUE, canvasId)

\* prev.filter(c => c.id !== canvasId)
withoutCanvas(cs, canvasId) == SelectSeq(cs, LAMBDA c : c.id # canvasId)

\* CanvasList.handleDelete and handleDeleteCanvas(canvasId); v records whether
\* the filter ran.  When the filter leaves no canvas and canvasId is the active
\* one, newCanvases[0].id throws inside the state updater: the render fails
\* and React unmounts the tree, which leaves the state of a page not yet
\* mounted, with the storage as it was.
handleDeleteCanvas ==
    /\ isLoaded
    /\ \E canvasId \in CanvasIds(canvases), confirmed \in BOOLEAN :
          IF Len(canvases) <= 1 \/ ~confirmed
          THEN /\ last' = Did("deleteCanvas", NullId, NullId, "", FALSE, canvasId)
               /\ NoCommit
          ELSE LET newCanvases == withoutCanvas(canvases, canvasId)
               IN  /\ last' = Did("deleteCanvas", NullId, NullId, "", TRUE, canvasId)
                   /\ IF canvasId # activeCanvasId
                      THEN /\ UNCHANGED <<nodes, edges, viewport, activeCanvasId, isLoaded>>
                           /\ StoreOnly(newCanvases, storage)
                      ELSE IF newCanvases = <<>>
                      THEN /\ nodes' = <<>> /\ edges' = <<>> /\ viewport' = 0
                           /\ canvases' = <<>> /\ activeCanvasId' = NoCanvas
                           /\ isLoaded' = FALSE
                           /\ UNCHANGED storage
                           /\ TitleReset
                      ELSE /\ activeCanvasId' = newCanvases[1].id
                           /\ nodes' = newCanvases[1].nodes
                           /\ edges' = newCanvases[1].edges
                           /\ viewport' = newCanvases[1].viewport
                           /\ UNCHANGED isLoaded
                           /\ FlushAndStore(newCanvases, storage)

\* CanvasList.handleSaveEdit and handleRenameCanvas(canvasId, newTitle)
handleRenameCanvas ==
    /\ isLoaded
    /\ UNCHANGED <<nodes, edges, viewport, activeCanvasId, isLoaded>>
    /\ \E canvasId \in CanvasIds(canvases), newTitle \in RenameTitles :
          /\ newTitle # FindCanvas(canvases, canvasId).title
          /\ StoreOnly([i \in 1..Len(canvases) |->
                            IF canvases[i].id = canvasId
                            THEN [canvases[i] EXCEPT !.title = newTitle]
                            ELSE canvases[i]],
                       storage)
          /\ last' = Did("renameCanvas", NullId, NullId, newTitle, FALSE, canvasId)

\* titles generateCanvasTitle gets from the model
GeneratedTitles == {"Generated"}

\* the promise of a generateCanvasTitle call resolves: with the model's
\* title, or, when the key is missing or the call fails or times out, with
\* a `New Canvas - ${time}` built at that moment.  The effect's
\* continuation gives the title to every canvas carrying the id its closure
\* holds.  q is the title, v records the fallback, c the canvas id
TitleArrives ==
    /\ isLoaded
    /\ \E k \in 1..Len(titleRequests), title \in GeneratedTitles \cup DefaultTitles :
          /\ titleRequests[k].pending
          /\ LET c == titleRequests[k].canvas
                 titled == [i \in 1..Len(canvases) |->
                               IF canvases[i].id = c
                               THEN [canvases[i] EXCEPT !.title = title]
                               ELSE canvases[i]]
             IN  /\ canvases' = titled
                 /\ UNCHANGED <<nodes, edges, viewport, activeCanvasId, isLoaded,
                                generating, researching>>
                 /\ storage' = storeEffect(storage, titled, isLoaded, activeCanvasId)
                 /\ titleEffect([titleRequests EXCEPT ![k].pending = FALSE])
                 /\ last' = Did("titleArrived", NullId, NullId, title, title \in DefaultTitles, c)

\* onClear; v records the answer to confirm().  The effects of the commit run
\* with the viewport as it is; the timer resets it 50 ms later.
onClear ==
    /\ isLoaded
    /\ \E confirmed \in BOOLEAN :
          /\ last' = Did("clear", NullId, NullId, "", confirmed, NoCanvas)
          /\ IF ~confirmed THEN NoCommit
             ELSE LET flushed == flushEffect(canvases, isLoaded, activeCanvasId, <<>>, <<>>, viewport)
                  IN  /\ nodes' = <<>> /\ edges' = <<>>
                      /\ canvases' = flushed
                      /\ storage' = storeEffect([storage EXCEPT !.cur = Absent], flushed,
                                                isLoaded, activeCanvasId)
                      /\ viewport' = 0
                      /\ UNCHANGED <<activeCanvasId, isLoaded>>
                      /\ titleEffect(titleRequests)
                      /\ UNCHANGED <<generating, researching>>

(***************************************************************************)
(* Export (onSave)                                                         *)
(***************************************************************************)
\* onSave: queues saveCurrentCanvas, then serialises the canvases and the
\* activeCanvasId of the render the callback was created in
onSave ==
    /\ isLoaded
    /\ last' = [Did("export", NullId, NullId, "", FALSE, activeCanvasId)
                  EXCEPT !.file = FileV2(canvases, activeCanvasId)]
    /\ UNCHANGED <<nodes, edges, viewport, activeCanvasId, isLoaded>>
    /\ StoreOnly(saveCurrentCanvas(canvases, activeCanvasId, nodes, edges, viewport), storage)

\* the file the user can pick straight after an export: the download
Downloads == IF last.op = "export" THEN {last.file} ELSE {}

(***************************************************************************)
(* Import (onRestore)                                                      *)
(***************************************************************************)
\* a two-node graph with collapse state, as an earlier session left it
SampleNodes ==
    <<[NewNode(<<"node", 1>>, "chatNode", "") EXCEPT !.collapsed = TRUE, !.collapsedCount = 1,
                                                      !.highlights = <<"q1">>],
      [NewNode(<<"node", 2>>, "chatNode", "q1") EXCEPT !.hidden = TRUE]>>

SampleEdges == <<[NewEdge(<<"node", 1>>, <<"node", 2>>) EXCEPT !.hidden = TRUE]>>

SampleCanvases ==
    <<NewCanvas(1, "Renamed", SampleNodes, SampleEdges, 1),
      NewCanvas(2, "New Canvas", <<>>, <<>>, 0)>>

ImportFiles ==
    {FileV2(SampleCanvases, 1),            \* an export of a two-canvas workspace
     FileV2(<<>>, NoCanvas),               \* version 2.0 with an empty canvases array
     FileV2(SampleCanvases, 3),            \* activeCanvasId names no canvas of the file
     FileLegacy(SampleNodes, SampleEdges, 1),
     FileOf("other"),
     FileOf("garbage")}

\* onRestore, reader.onload; v records whether the import went through and
\* file the file that was read
onRestore ==
    /\ isLoaded
    /\ \E file \in ImportFiles \cup Downloads, confirmed \in BOOLEAN :
          IF file.kind = "v2" /\ confirmed
          THEN /\ activeCanvasId' = file.activeCanvasId
               /\ IF HasCanvas(file.canvases, file.activeCanvasId)
                  THEN LET activeCanvas == FindCanvas(file.canvases, file.activeCanvasId)
                       IN  /\ nodes' = activeCanvas.nodes
                           /\ edges' = activeCanvas.edges
                           /\ viewport' = activeCanvas.viewport
                  ELSE UNCHANGED <<nodes, edges, viewport>>
               /\ UNCHANGED isLoaded
               /\ FlushAndStore(file.canvases, storage)
               /\ last' = [Did("importV2", NullId, NullId, "", TRUE, file.activeCanvasId)
                             EXCEPT !.file = file]
          ELSE IF file.kind = "legacy" /\ confirmed
          THEN /\ Len(canvases) < MaxCanvases
               /\ \E t \in CanvasClock :
                     /\ activeCanvasId' = t
                     /\ nodes' = file.nodes
                     /\ edges' = file.edges
                     /\ viewport' = file.viewport
                     /\ UNCHANGED isLoaded
                     /\ FlushAndStore(Append(canvases,
                                             NewCanvas(t, "Imported Canvas", file.nodes,
                                                       file.edges, file.viewport)),
                                      storage)
                     /\ last' = [Did("importLegacy", NullId, NullId, "", TRUE, t)
                                   EXCEPT !.file = file]
          ELSE /\ last' = [Did("import", NullId, NullId, file.kind, FALSE, NoCanvas)
                             EXCEPT !.file = file]
               /\ NoCommit

(***************************************************************************)
(* The mutation engine on one canvas, from an empty storage: nodes of the  *)
(* three variants, branch, connect and delete                              *)
(***************************************************************************)
InitGraph == Unmounted /\ storage = [cur |-> Absent, old |-> AbsentOld]

NextGraph ==
    \/ LoadEffect
    \/ handleAddChatNode
    \/ handleAddResearchNode
    \/ handleAddNoteNode
    \/ onBranch
    \/ onConnect(MaxEdges)
    \/ ChatNodeHandleDelete
    \/ NoteNodeHandleDelete
    \/ ResearchNodeHandleDelete

SpecGraph == InitGraph /\ [][NextGraph]_vars

(***************************************************************************)
(* Collapse and expand, from a workspace an earlier session stored: one    *)
(* canvas of DagNodes chat nodes node-1, node-2, ... and any set of at     *)
(* most DagEdges edges node-i -> node-j, i < j (the graphs add and connect *)
(* build, up to the names of the nodes)                                    *)
(***************************************************************************)
ChatNodeList(n) == [i \in 1..n |-> NewNode(<<"node", i>>, "chatNode", "")]

ForwardPairs(n) == {p \in (1..n) \X (1..n) : p[1] < p[2]}

PairLess(p, q) == p[1] < q[1] \/ (p[1] = q[1] /\ p[2] < q[2])

RECURSIVE EdgeList(_)

EdgeList(P) ==
    IF P = {} THEN <<>>
    ELSE LET p == CHOOSE x \in P : \A y \in P \ {x} : PairLess(x, y)
         IN  <<NewEdge(<<"node", p[1]>>, <<"node", p[2]>>)>> \o EdgeList(P \ {p})

StoredDags(n, m) ==
    {[cur |-> Stored(<<NewCanvas(1, "New Canvas", ChatNodeList(n), EdgeList(P), 0)>>, 1),
      old |-> AbsentOld] : P \in {Q \in SUBSET ForwardPairs(n) : Cardinality(Q) <= m}}

InitCollapse == Unmounted /\ storage \in StoredDags(DagNodes, DagEdges)

NextCollapse ==
    \/ LoadEffect
    \/ onCollapse

SpecCollapse == InitCollapse /\ [][NextCollapse]_vars

(***************************************************************************)
(* Research runs on a fresh workspace                                      *)
(***************************************************************************)
NextResearch ==
    \/ LoadEffect
    \/ handleAddResearchNode
    \/ ResearchNodeHandleSearch
    \/ ResearchRunResumes

SpecResearch == InitGraph /\ [][NextResearch]_vars

(***************************************************************************)
(* Conversations on a fresh workspace: chat nodes are added and branched,  *)
(* answers are generated and the canvas gets its title                     *)
(***************************************************************************)
NextGenerate ==
    \/ LoadEffect
    \/ handleAddChatNode
    \/ onBranch
    \/ ChatNodeHandleGenerate
    \/ ChatGenerationEnds
    \/ TitleArrives

SpecGenerate == InitGraph /\ [][NextGenerate]_vars

(***************************************************************************)
(* Branch and collapse together, from a smaller stored workspace so that   *)
(* a branch still fits: the calls may name a node that is not in the graph *)
(***************************************************************************)
InitStale == Unmounted /\ storage \in StoredDags(StaleNodes, StaleEdges)

NextStale ==
    \/ LoadEffect
    \/ onBranch
    \/ onCollapse

SpecStale == InitStale /\ [][NextStale]_vars

(***************************************************************************)
(* The operations that add and remove edges, on a fresh workspace: chat    *)
(* and note nodes (whose delete handlers differ), branch, connect, delete  *)
(***************************************************************************)
NextEdges ==
    \/ LoadEffect
    \/ (Len(nodes) < EdgeNodes /\ handleAddChatNode)
    \/ (Len(nodes) < EdgeNodes /\ handleAddNoteNode)
    \/ (Len(nodes) < EdgeNodes /\ onBranch)
    \/ onConnect(MaxEdges)
    \/ ChatNodeHandleDelete
    \/ NoteNodeHandleDelete

SpecEdges == InitGraph /\ [][NextEdges]_vars

(***************************************************************************)
(* Collapse and expand together with connect and delete, which change the  *)
(* graph around a collapsed node, from the stored workspaces of            *)
(* SpecCollapse (SpecStale has collapse together with branch)              *)
(***************************************************************************)
NextSubtree ==
    \/ LoadEffect
    \/ onCollapse
    \/ onConnect(DagEdges)
    \/ ChatNodeHandleDelete

SpecSubtree == InitCollapse /\ [][NextSubtree]_vars

(***************************************************************************)
(* Connect, from a stored workspace of the same shape                      *)
(***************************************************************************)
InitConnect == Unmounted /\ storage \in StoredDags(DagNodes, DagEdges)

NextConnect ==
    \/ LoadEffect
    \/ onConnect(DagEdges)

SpecConnect == InitConnect /\ [][NextConnect]_vars

(***************************************************************************)
(* Generation on the stored acyclic graphs                                 *)
(***************************************************************************)
NextWalk ==
    \/ LoadEffect
    \/ ChatNodeHandleGenerate
    \/ ChatGenerationEnds

SpecWalk == InitConnect /\ [][NextWalk]_vars

(***************************************************************************)
(* Graphs as a file or a damaged store may hold them: the same chat nodes  *)
(* with any edges between them, backward edges and self-loops included     *)
(***************************************************************************)
AllPairs(n) == (1..n) \X (1..n)

StoredGraphs(n, m) ==
    {[cur |-> Stored(<<NewCanvas(1, "New Canvas", ChatNodeList(n), EdgeList(P), 0)>>, 1),
      old |-> AbsentOld] : P \in {Q \in SUBSET AllPairs(n) : Cardinality(Q) <= m}}

InitAnyGraph == Unmounted /\ storage \in StoredGraphs(DagNodes, DagEdges)

NextAnyGraph ==
    \/ LoadEffect
    \/ ChatNodeHandleGenerate
    \/ ChatGenerationEnds

SpecAnyGraph == InitAnyGraph /\ [][NextAnyGraph]_vars

\* the BFS of onCollapse reads the source and target of the edges, which no
\* collapse changes: one call on each loaded graph applies it to every
\* edge list and every start node
NextAnyCollapse ==
    \/ LoadEffect
    \/ (last.op = "load" /\ onCollapse)

SpecAnyCollapse == InitAnyGraph /\ [][NextAnyCollapse]_vars

(***************************************************************************)
(* The workspace: canvases, import and clear over small live graphs, from  *)
(* the storages a first visit or an earlier session leaves                 *)
(***************************************************************************)
InitStorages ==
    {[cur |-> Absent, old |-> AbsentOld],
     [cur |-> Stored(SampleCanvases, 1), old |-> AbsentOld],
     [cur |-> Absent, old |-> StoredOld(SampleNodes, SampleEdges, 1)],
     [cur |-> [Absent EXCEPT !.kind = "garbage"], old |-> AbsentOld]}

Init == Unmounted /\ storage \in InitStorages

Next ==
    \/ LoadEffect
    \/ (Len(nodes) < WsNodes /\ handleAddChatNode)
    \/ PanZoom
    \/ handleNewCanvas
    \/ handleSelectCanvas
    \/ handleDeleteCanvas
    \/ handleRenameCanvas
    \/ onClear
    \/ onSave
    \/ onRestore

Spec == Init /\ [][Next]_vars

(***************************************************************************)
(* Placement of standalone nodes.  Only here the nodes carry a position    *)
(* (pixels, as <<x, y>>) and placed, the way getNewNodePosition found it:  *)
(* the number of the candidate offset, or 0 for the fallback.              *)
(***************************************************************************)
NODE_SIZES ==
    [chatNode     |-> [width |-> 412, height |-> 400],
     researchNode |-> [width |-> 600, height |-> 500],
     noteNode     |-> [width |-> 500, height |-> 400]]

Padding == 50

\* 1 / Math.max(zoom, 0.1) for zoom 1, 0.5 and 0.25
ScaleFactors == {1, 2, 4}

\* (Math.random() * 200 - 100), some of its values
RandomOffsets == {-100, 0, 99}

\* checkOverlap with padding 0
checkOverlapNoPadding(pos1, size1, pos2, size2, padding) ==
    ~ \/ pos1[1] + size1.width < pos2[1]
      \/ pos2[1] + size2.width < pos1[1]
      \/ pos1[2] + size1.height < pos2[2]
      \/ pos2[2] + size2.height < pos1[2]

checkOverlap(pos1, size1, pos2, size2, padding) ==
    ~ \/ pos1[1] + size1.width + padding < pos2[1]
      \/ pos2[1] + size2.width + padding < pos1[1]
      \/ pos1[2] + size1.height + padding < pos2[2]
      \/ pos2[2] + size2.height + padding < pos1[2]

\* searchOffsets for a reference node of type refType
searchOffsets(refType, nodeType, spacing) ==
    LET refWidth == NODE_SIZES[refType].width
        refHeight == NODE_SIZES[refType].height
        newNodeSize == NODE_SIZES[nodeType]
    IN  << <<refWidth + spacing, 0>>,
           <<0, refHeight + spacing>>,
           <<-(newNodeSize.width + spacing), 0>>,
           <<0, -(newNodeSize.height + spacing)>>,
           <<refWidth + spacing, refHeight + spacing>>,
           <<refWidth + spacing, -(newNodeSize.height + spacing)>> >>

\* getNewNodePosition(nodeType) on a non-empty node list: referenceNode is
\* the selected node or the last one, random the reading of Math.random()
getNewNodePosition(nds, nodeType, referenceNode, scaleFactor, random) ==
    LET start == referenceNode.position
        spacing == 30 * scaleFactor
        offsets == searchOffsets(referenceNode.type, nodeType, spacing)
        candidatePos(k) == <<start[1] + offsets[k][1], start[2] + offsets[k][2]>>
        hasOverlap(k) ==
            \E i \in 1..Len(nds) :
                checkOverlap(candidatePos(k), NODE_SIZES[nodeType],
                             nds[i].position, NODE_SIZES[nds[i].type], Padding)
        free == {k \in 1..Len(offsets) : ~hasOverlap(k)}
    IN  IF free # {}
        THEN LET k == CHOOSE x \in free : \A y \in free : x <= y
             IN  [position |-> candidatePos(k), placed |-> k]
        ELSE [position |-> <<start[1] + NODE_SIZES[referenceNode.type].width + 300 * scaleFactor,
                             start[2] + random * scaleFactor>>,
              placed |-> 0]

\* a node with its position
PlacedNode(n, at) ==
    [f \in DOMAIN n \cup {"position", "placed"} |->
        IF f = "position" THEN at.position ELSE IF f = "placed" THEN at.placed ELSE n[f]]

\* handleAddChatNode, handleAddResearchNode and handleAddNoteNode with the
\* position they give the node; the user may have selected a node and
\* zoomed before the click
\* (last.v = getZoom() returned 1)
handleAddNodePlaced ==
    /\ isLoaded /\ nodes # <<>> /\ Len(nodes) < MaxNodes
    /\ \E nodeType \in DOMAIN NODE_SIZES, r \in 1..Len(nodes),
          scaleFactor \in ScaleFactors, random \in RandomOffsets :
          LET prefix == CASE nodeType = "chatNode" -> "node"
                          [] nodeType = "researchNode" -> "research"
                          [] nodeType = "noteNode" -> "note"
          IN  \E t \in Clock(prefix) :
                /\ nodes' = Append(nodes,
                      PlacedNode(NewNode(<<prefix, t>>, nodeType, ""),
                                 getNewNodePosition(nodes, nodeType, nodes[r], scaleFactor, random)))
                /\ last' = Did("addNode", <<prefix, t>>, NullId, "", scaleFactor = 1, NoCanvas)
    /\ UNCHANGED edges /\ GraphFrame
    /\ FlushAndStore(canvases, storage)

\* stored canvases with one node at the origin
PlaceStorages ==
    {[cur |-> Stored(<<NewCanvas(1, "New Canvas",
                                 <<PlacedNode(NewNode(<<"node", 1>>, type, ""),
                                              [position |-> <<0, 0>>, placed |-> 0])>>,
                                 <<>>, 0)>>, 1),
      old |-> AbsentOld] : type \in DOMAIN NODE_SIZES}

InitPlace == Unmounted /\ storage \in PlaceStorages

NextPlace ==
    \/ LoadEffect
    \/ handleAddNodePlaced

SpecPlace == InitPlace /\ [][NextPlace]_vars

(***************************************************************************)
(* Branching with the position and the settings of the new node.  Only     *)
(* here the nodes carry a position and, where their payload has them, the  *)
(* keys reasoningMode and isSearchEnabled: the chat nodes handleAddChatNode *)
(* and onBranch made have both, a chat node of an older file, a research   *)
(* node and a note node have neither.                                      *)
(***************************************************************************)
ReasoningModes == {"off", "auto"}

\* Math.random() * 100 - 50, the vertical offset of a branch
BranchOffsets == {-50, 0, 49}

\* a node with its position and the settings keys of its payload
NodeWith(n, position, settings) ==
    [f \in DOMAIN n \cup {"position"} \cup DOMAIN settings |->
        IF f = "position" THEN position
        ELSE IF f \in DOMAIN settings THEN settings[f] ELSE n[f]]

\* settings that ignore the source
inheritDefaults(parentData) == [reasoningMode |-> "off", isSearchEnabled |-> FALSE]

\* 'reasoningMode' in parentData ? parentData.reasoningMode : 'off', and the
\* same for isSearchEnabled
inheritSettings(parentData) ==
    [reasoningMode |-> IF "reasoningMode" \in DOMAIN parentData
                       THEN parentData.reasoningMode ELSE "off",
     isSearchEnabled |-> IF "isSearchEnabled" \in DOMAIN parentData
                         THEN parentData.isSearchEnabled ELSE FALSE]

\* sourceNode.type === 'researchNode' ? 800 : 600
xOffset(type) == IF type = "researchNode" THEN 800 ELSE 600

\* onBranch with the position and the settings it gives the new node
onBranchPlaced ==
    /\ isLoaded /\ Len(nodes) < MaxNodes
    /\ \E quoteText \in QuoteTexts, sourceNodeId \in NodeIds(nodes) \cup {MissingNodeId},
          random \in BranchOffsets :
          IF ~HasNode(nodes, sourceNodeId)
          THEN /\ last' = Did("branch", sourceNodeId, NullId, quoteText, FALSE, NoCanvas)
               /\ NoCommit
          ELSE \E t \in Clock("node") :
               LET sourceNode == GetNode(nodes, sourceNodeId)
                   marked == branchNodes(nodes, quoteText, sourceNodeId, t)
                   newPosition == <<sourceNode.position[1] + xOffset(sourceNode.type),
                                    sourceNode.position[2] + random>>
               IN  /\ nodes' = [marked EXCEPT ![Len(marked)] =
                                    NodeWith(@, newPosition, inheritSettings(sourceNode))]
                   /\ edges' = branchEdges(edges, sourceNodeId, t)
                   /\ last' = Did("branch", sourceNodeId, <<"node", t>>, quoteText, TRUE, NoCanvas)
                   /\ GraphFrame
                   /\ FlushAndStore(canvases, storage)

\* the payloads a stored source can have
SourceNodes ==
    {NodeWith(NewNode(<<"node", 1>>, "chatNode", ""), <<0, 0>>,
              [reasoningMode |-> m, isSearchEnabled |-> e]) :
        m \in ReasoningModes, e \in BOOLEAN}
    \cup {NodeWith(NewNode(<<"node", 1>>, "chatNode", ""), <<0, 0>>, <<>>),
          NodeWith(NewNode(<<"research", 1>>, "researchNode", ""), <<0, 0>>, <<>>),
          NodeWith(NewNode(<<"note", 1>>, "noteNode", ""), <<0, 0>>, <<>>)}

BranchStorages ==
    {[cur |-> Stored(<<NewCanvas(1, "New Canvas", <<n>>, <<>>, 0)>>, 1),
      old |-> AbsentOld] : n \in SourceNodes}

InitBranch == Unmounted /\ storage \in BranchStorages

NextBranch ==
    \/ LoadEffect
    \/ onBranchPlaced

SpecBranch == InitBranch /\ [][NextBranch]_vars

(***************************************************************************)
(* Two canvases with a conversation each, stored by an earlier session:    *)
(* the root of the first may have its answer already, and the root of the  *)
(* second may carry the id of the first (twice the same file imported)     *)
(***************************************************************************)
SwitchRoot(t, aiResponse) ==
    [NewNode(<<"node", t>>, "chatNode", "") EXCEPT !.aiResponse = aiResponse]

SwitchStorages ==
    {[cur |-> Stored(<<NewCanvas(1, "New Canvas", <<SwitchRoot(1, a)>>, <<>>, 0),
                       NewCanvas(2, "New Canvas", <<SwitchRoot(t, "")>>, <<>>, 0)>>, 1),
      old |-> AbsentOld] : a \in {""} \cup Responses, t \in Times}

InitSwitch == Unmounted /\ storage \in SwitchStorages

NextSwitch ==
    \/ LoadEffect
    \/ handleSelectCanvas
    \/ handleRenameCanvas
    \/ ChatNodeHandleGenerate
    \/ ChatGenerationEnds
    \/ TitleArrives

SpecSwitch == InitSwitch /\ [][NextSwitch]_vars

(***************************************************************************)
(* The same two canvases with the list operations that can meet a title    *)
(* request in flight: rename and delete                                    *)
(***************************************************************************)
NextTitle ==
    \/ LoadEffect
    \/ handleSelectCanvas
    \/ handleRenameCanvas
    \/ handleDeleteCanvas
    \/ ChatGenerationEnds
    \/ (generating = {} /\ ChatNodeHandleGenerate)
    \/ TitleArrives

SpecTitle == InitSwitch /\ [][NextTitle]_vars

(***************************************************************************)
(* Load and reload, from every combination of the two storage keys         *)
(***************************************************************************)
CurrentKeys ==
    {Absent,
     [Absent EXCEPT !.kind = "garbage"],   \* does not parse, or parses to no canvases array
     Stored(<<>>, NoCanvas),               \* parses, canvases is empty
     Stored(SampleCanvases, 1),
     Stored(SampleCanvases, 2),
     Stored(SampleCanvases, 3)}            \* activeCanvasId names no canvas

LegacyKeys ==
    {AbsentOld,
     [AbsentOld EXCEPT !.kind = "garbage"],  \* does not parse, or has no nodes
     StoredOld(<<>>, <<>>, 0),
     StoredOld(SampleNodes, SampleEdges, 1)}

InitLoad == Unmounted /\ storage \in [cur : CurrentKeys, old : LegacyKeys]

NextLoad ==
    \/ LoadEffect
    \/ Reload
    \/ (Len(nodes) < WsNodes /\ handleAddChatNode)
    \/ PanZoom

SpecLoad == InitLoad /\ [][NextLoad]_vars

(***************************************************************************)
(* The writes of the workspace key: load and reload from every combination *)
(* of the two keys, and the operations that can leave the canvas list      *)
(* empty or remove the key (import, clear)                                 *)
(***************************************************************************)
NextStore ==
    \/ LoadEffect
    \/ Reload
    \/ onRestore
    \/ onClear

SpecStore == InitLoad /\ [][NextStore]_vars

(***************************************************************************)
(* Vocabulary of the properties                                            *)
(***************************************************************************)
RECURSIVE Closure(_, _)

\* the node ids reachable from the ids of S along edges, S included
Closure(eds, S) ==
    LET T == S \cup {eds[i].target : i \in {j \in 1..Len(eds) : eds[j].source \in S}}
    IN  IF T = S THEN S ELSE Closure(eds, T)

Reaches(eds, from, to) == to \in Closure(eds, {from})

\* the ids reachable from n along at least one edge, n itself left out
DescendantsOf(eds, n) ==
    Closure(eds, {eds[i].target : i \in {j \in 1..Len(eds) : eds[j].source = n}}) \ {n}

HasCycle(eds) == \E i \in 1..Len(eds) : Reaches(eds, eds[i].target, eds[i].source)

Count(s, x) == Cardinality({i \in 1..Len(s) : s[i] = x})

(***************************************************************************)
(* C1..C7: mutation engine                                                 *)
(***************************************************************************)
\* C1: after any sequence of add, branch and connect operations the live edge
\* set contains no directed cycle, self-loops included.
C1_NoCycle == ~HasCycle(edges)

\* C2: a connect whose target already reaches its source (source = target
\* included) is rejected and leaves the edge list and the node list as they were.
C2_ConnectRejectsCycle ==
    [][(last'.op = "connect" /\ Reaches(edges, last'.b, last'.a))
         => (~last'.v /\ edges' = edges /\ nodes' = nodes)]_vars

\* a connect that would close a path of two edges was rejected
C2_Witness ==
    /\ last.op = "connect" /\ ~last.v /\ last.a # last.b
    /\ Reaches(edges, last.b, last.a)
    /\ ~\E i \in 1..Len(edges) : edges[i].source = last.b /\ edges[i].target = last.a

\* C3: deleteNode(X) removes the nodes with id X and exactly the edges whose
\* source or target is X, whatever the variant of X; all else stays.
C3_DeleteRemovesNodeAndItsEdges ==
    [][last'.op = "deleteNode"
         => /\ nodes' = SelectSeq(nodes, LAMBDA n : n.id # last'.a)
            /\ edges' = SelectSeq(edges, LAMBDA e : e.source # last'.a /\ e.target # last'.a)]_vars

\* C4: collapse(N, true) hides exactly the descendants of N and the edges
\* leaving N or a descendant, sets collapsed and collapsedCount = |D| on N,
\* and changes, adds or removes nothing else.
C4_CollapseHidesClosure ==
    [][(last'.op = "collapse" /\ last'.v)
         => LET N == last'.a
                D == DescendantsOf(edges, N)
            IN  /\ Len(nodes') = Len(nodes) /\ Len(edges') = Len(edges)
                /\ \A i \in 1..Len(nodes) :
                      nodes'[i] = IF nodes[i].id \in D
                                  THEN [nodes[i] EXCEPT !.hidden = TRUE]
                                  ELSE IF nodes[i].id = N
                                  THEN [nodes[i] EXCEPT !.collapsed = TRUE,
                                                        !.collapsedCount = Cardinality(D)]
                                  ELSE nodes[i]
                /\ \A i \in 1..Len(edges) :
                      edges'[i] = IF edges[i].source \in D \cup {N}
                                  THEN [edges[i] EXCEPT !.hidden = TRUE]
                                  ELSE edges[i]]_vars

\* a node was collapsed whose two descendants two paths join: one descendant
\* is the target of two of the three hidden edges
C4_Witness ==
    /\ last.op = "collapse" /\ last.v
    /\ \E i \in 1..Len(nodes) :
          /\ nodes[i].id = last.a /\ nodes[i].collapsed /\ nodes[i].collapsedCount = 2
    /\ \E i, j \in 1..Len(edges) :
          i # j /\ edges[i].target = edges[j].target /\ edges[i].hidden /\ edges[j].hidden
    /\ Cardinality({i \in 1..Len(edges) : edges[i].hidden}) = 3
    /\ Cardinality({i \in 1..Len(nodes) : nodes[i].hidden}) = 2

\* C5: collapse(N, false) right after collapse(N, true) leaves every
\* descendant of N and every edge leaving N or a descendant with hidden =
\* false, N with collapsed = false and collapsedCount = 0, and every node and
\* edge outside D and N as it was.
C5_ExpandAfterCollapse ==
    [][(last.op = "collapse" /\ last.v /\ last'.op = "collapse" /\ ~last'.v /\ last'.a = last.a)
         => LET N == last'.a
                D == DescendantsOf(edges, N)
            IN  /\ Len(nodes') = Len(nodes) /\ Len(edges') = Len(edges)
                /\ \A i \in 1..Len(nodes) :
                      /\ nodes[i].id \in D => nodes'[i] = [nodes[i] EXCEPT !.hidden = FALSE]
                      /\ nodes[i].id = N =>
                            nodes'[i] = [nodes[i] EXCEPT !.collapsed = FALSE, !.collapsedCount = 0]
                      /\ nodes[i].id \notin D \cup {N} => nodes'[i] = nodes[i]
                /\ \A i \in 1..Len(edges) :
                      /\ edges[i].source \in D \cup {N} =>
                            edges'[i] = [edges[i] EXCEPT !.hidden = FALSE]
                      /\ edges[i].source \notin D \cup {N} => edges'[i] = edges[i]]_vars

\* N, with a descendant, was collapsed and then expanded, and a node outside
\* its closure keeps the collapsed flag and the count it had
C5_Witness ==
    /\ last.op = "collapse" /\ ~last.v /\ last.same /\ last.pv
    /\ DescendantsOf(edges, last.a) # {}
    /\ \A i \in 1..Len(nodes) :
          nodes[i].id \in DescendantsOf(edges, last.a) => ~nodes[i].hidden
    /\ \E i \in 1..Len(nodes) :
          /\ nodes[i].id \notin DescendantsOf(edges, last.a) \cup {last.a}
          /\ nodes[i].collapsed /\ nodes[i].collapsedCount = 2

\* C6: a branch on an existing source appends one chat node carrying the
\* quote and one edge source -> new node; the highlight list of the source
\* grows by at most one entry and no other node or edge changes.
C6_BranchAddsOneNodeOneEdge ==
    [][(last'.op = "branch" /\ last'.v)
         => /\ Len(nodes') = Len(nodes) + 1
            /\ nodes'[Len(nodes')] = NewNode(last'.b, "chatNode", last'.q)
            /\ edges' = Append(edges, NewEdge(last'.a, last'.b))
            /\ \A i \in 1..Len(nodes) :
                  \/ nodes'[i] = nodes[i]
                  \/ /\ nodes[i].id = last'.a
                     /\ nodes'[i] = [nodes[i] EXCEPT !.highlights = Append(@, last'.q)]]_vars

\* C7: two branch calls in a row with the same text on the same chat source:
\* after the second the text stands in the source's highlights exactly once,
\* and the second call has added one node and one edge of its own, as the
\* first did.
C7_BranchTwiceSameText ==
    [][(/\ last.op = "branch" /\ last.v /\ last'.op = "branch" /\ last'.v
        /\ last'.a = last.a /\ last'.q = last.q
        /\ GetNode(nodes, last.a).type = "chatNode")
         => /\ \A i \in 1..Len(nodes') :
                  nodes'[i].id = last'.a => Count(nodes'[i].highlights, last'.q) = 1
            /\ Len(nodes') = Len(nodes) + 1
            /\ Len(edges') = Len(edges) + 1
            /\ last'.b # last.b]_vars

\* the positions of the records of cs whose id is id
RecordsOf(cs, id) == {i \in 1..Len(cs) : cs[i].id = id}

\* C8: once loaded, the workspace holds at least one canvas after every
\* operation, and a deleteCanvas issued while a single canvas remains is
\* rejected and changes nothing.
C8_AtLeastOneCanvas ==
    [][/\ (isLoaded' => Len(canvases') >= 1)
       /\ (last'.op = "deleteCanvas" /\ Len(canvases) = 1
              => ~last'.v /\ UNCHANGED <<nodes, edges, viewport, canvases,
                                         activeCanvasId, isLoaded, storage>>)]_vars

\* C9: once loaded, activeCanvasId is the id of exactly one canvas of the
\* collection.
C9_ActiveIsExactlyOneCanvas ==
    isLoaded => Cardinality(RecordsOf(canvases, activeCanvasId)) = 1

\* C10: a selectCanvas(id) that switches loses no graph state: a record of
\* the canvas that was active before exists and holds the live nodes, edges
\* and viewport as they were, the live graph is the stored graph of the
\* target, the target's stored graph is as it was, and id is active.
C10_SelectLosesNothing ==
    [][last'.op = "selectCanvas" /\ last'.v
         => /\ RecordsOf(canvases', activeCanvasId) # {}
            /\ \A i \in RecordsOf(canvases', activeCanvasId) :
                  /\ canvases'[i].nodes = nodes
                  /\ canvases'[i].edges = edges
                  /\ canvases'[i].viewport = viewport
            /\ nodes' = FindCanvas(canvases, last'.c).nodes
            /\ edges' = FindCanvas(canvases, last'.c).edges
            /\ FindCanvas(canvases', last'.c).nodes = FindCanvas(canvases, last'.c).nodes
            /\ FindCanvas(canvases', last'.c).edges = FindCanvas(canvases, last'.c).edges
            /\ activeCanvasId' = last'.c]_vars

\* C10 where the id that was active names a canvas: the same postcondition
C10_SelectFromACanvas ==
    [][last'.op = "selectCanvas" /\ last'.v /\ HasCanvas(canvases, activeCanvasId)
         => /\ RecordsOf(canvases', activeCanvasId) # {}
            /\ \A i \in RecordsOf(canvases', activeCanvasId) :
                  /\ canvases'[i].nodes = nodes
                  /\ canvases'[i].edges = edges
                  /\ canvases'[i].viewport = viewport
            /\ nodes' = FindCanvas(canvases, last'.c).nodes
            /\ edges' = FindCanvas(canvases, last'.c).edges
            /\ FindCanvas(canvases', last'.c).nodes = FindCanvas(canvases, last'.c).nodes
            /\ FindCanvas(canvases', last'.c).edges = FindCanvas(canvases, last'.c).edges
            /\ activeCanvasId' = last'.c]_vars

\* a switch away from a canvas with a node and a moved viewport, to a canvas
\* whose stored graph is another one
C10_Witness ==
    /\ last.op = "selectCanvas" /\ last.v
    /\ activeCanvasId = last.c
    /\ \E i \in 1..Len(canvases) :
          /\ canvases[i].id # activeCanvasId
          /\ Len(canvases[i].nodes) >= 1
          /\ canvases[i].viewport = 1
          /\ canvases[i].nodes # nodes

(***************************************************************************)
(* C11..C20: persistence, import, canvas manager, ancestor walk            *)
(***************************************************************************)
GraphOps == {"addNode", "branch", "connect", "deleteNode", "collapse"}

\* C11: after a graph mutation and the effects of its commit, a record of the
\* active canvas exists and holds the live nodes and edges, and the workspace
\* stored under the versioned key is the in-memory {canvases, activeCanvasId}.
C11_MutationIsFlushedAndStored ==
    [][last'.op \in GraphOps /\ (nodes' # nodes \/ edges' # edges)
         => /\ RecordsOf(canvases', activeCanvasId') # {}
            /\ \A i \in RecordsOf(canvases', activeCanvasId') :
                  canvases'[i].nodes = nodes' /\ canvases'[i].edges = edges'
            /\ storage'.cur = Stored(canvases', activeCanvasId')]_vars

\* C12: importing (confirmed) the file an export has just produced leaves the
\* workspace as it was at the export: the same canvases with equal ids,
\* titles, nodes, edges and viewports, the same active canvas, and the live
\* graph and viewport of the active canvas as they were.
C12_ExportImportRoundTrip ==
    [][last.op = "export" /\ last'.op = "importV2" /\ last'.file = last.file
         => /\ canvases' = canvases
            /\ activeCanvasId' = activeCanvasId
            /\ nodes' = nodes /\ edges' = edges
            /\ viewport' = viewport]_vars

\* C12 without the viewports: canvases compared by id, title, nodes, edges
C12_RoundTripButViewport ==
    [][last.op = "export" /\ last'.op = "importV2" /\ last'.file = last.file
         => /\ Len(canvases') = Len(canvases)
            /\ \A i \in 1..Len(canvases) :
                  /\ canvases'[i].id = canvases[i].id
                  /\ canvases'[i].title = canvases[i].title
                  /\ canvases'[i].nodes = canvases[i].nodes
                  /\ canvases'[i].edges = canvases[i].edges
            /\ activeCanvasId' = activeCanvasId
            /\ nodes' = nodes /\ edges' = edges]_vars

\* the versioned key yields a workspace: it parses and holds a canvas
CurrentYields(st) == st.cur.kind = "ok" /\ Len(st.cur.canvases) > 0

\* C13: load with the versioned key absent and a legacy record present leaves
\* exactly one canvas, holding the record's nodes, edges and viewport, makes
\* it the active canvas and removes the legacy key.
C13_LegacyMigration ==
    [][last'.op = "load" /\ storage.cur.kind = "absent" /\ storage.old.kind = "ok"
         => /\ Len(canvases') = 1
            /\ canvases'[1].nodes = storage.old.nodes
            /\ canvases'[1].edges = storage.old.edges
            /\ canvases'[1].viewport = storage.old.viewport
            /\ activeCanvasId' = canvases'[1].id
            /\ storage'.old.kind = "absent"]_vars

\* a migrated two-node graph is on screen and the legacy key is gone
C13_Witness ==
    /\ last.op = "load" /\ Len(canvases) = 1
    /\ canvases[1].title = "Migrated Canvas"
    /\ canvases[1].nodes = SampleNodes /\ canvases[1].edges = SampleEdges
    /\ canvases[1].viewport = 1
    /\ nodes = SampleNodes
    /\ storage.old.kind = "absent" /\ storage.cur.kind = "ok"

\* C14: load ends loaded; it takes the workspace of the versioned key when
\* that key yields one and then leaves the legacy key alone; otherwise it
\* migrates the legacy record when that key yields one; otherwise it leaves
\* exactly one canvas, empty and active, and an empty live graph.
C14_LoadPrecedence ==
    [][last'.op = "load"
         => /\ isLoaded'
            /\ IF CurrentYields(storage)
               THEN /\ canvases' = storage.cur.canvases
                    /\ activeCanvasId' = storage.cur.activeCanvasId
                    /\ storage'.old = storage.old
               ELSE IF storage.old.kind = "ok"
               THEN /\ Len(canvases') = 1
                    /\ canvases'[1].nodes = storage.old.nodes
                    /\ canvases'[1].edges = storage.old.edges
                    /\ activeCanvasId' = canvases'[1].id
               ELSE /\ Len(canvases') = 1
                    /\ canvases'[1].nodes = <<>> /\ canvases'[1].edges = <<>>
                    /\ activeCanvasId' = canvases'[1].id
                    /\ nodes' = <<>> /\ edges' = <<>>]_vars

\* both keys held a workspace and the versioned one was loaded
C14_Witness ==
    /\ last.op = "load" /\ storage.old.kind = "ok"
    /\ Len(canvases) = 2 /\ activeCanvasId = 1 /\ nodes = SampleNodes

\* C15: a confirmed import of a legacy file appends exactly one canvas holding
\* the file's nodes, edges and viewport, makes it active and loads it into
\* the live graph; every canvas that existed keeps its id, title, nodes and
\* edges.
C15_LegacyImportAppends ==
    [][last'.op = "importLegacy"
         => /\ Len(canvases') = Len(canvases) + 1
            /\ \A i \in 1..Len(canvases) :
                  /\ canvases'[i].id = canvases[i].id
                  /\ canvases'[i].title = canvases[i].title
                  /\ canvases'[i].nodes = canvases[i].nodes
                  /\ canvases'[i].edges = canvases[i].edges
            /\ canvases'[Len(canvases')].nodes = last'.file.nodes
            /\ canvases'[Len(canvases')].edges = last'.file.edges
            /\ canvases'[Len(canvases')].viewport = last'.file.viewport
            /\ activeCanvasId' = canvases'[Len(canvases')].id
            /\ nodes' = last'.file.nodes /\ edges' = last'.file.edges]_vars

\* the import files that are neither an export of a workspace nor a legacy
\* record: another shape, unparseable text, a version 2.0 file without a
\* canvas
IsInvalidFile(file) ==
    \/ file.kind \in {"other", "garbage"}
    \/ file.kind = "v2" /\ file.canvases = <<>>

\* C16: an import of an invalid file, or one the user declines, leaves the
\* canvas collection, the active canvas id and the live graph unchanged.
C16_InvalidImportRejected ==
    [][last'.op \in {"import", "importV2", "importLegacy"} /\ (IsInvalidFile(last'.file) \/ ~last'.v)
         => /\ canvases' = canvases
            /\ activeCanvasId' = activeCanvasId
            /\ nodes' = nodes /\ edges' = edges]_vars

\* C16 for the files onRestore tells apart: another shape, unparseable text,
\* a declined confirmation
C16_OtherShapeOrDeclined ==
    [][last'.op \in {"import", "importV2", "importLegacy"}
          /\ (last'.file.kind \in {"other", "garbage"} \/ ~last'.v)
         => /\ canvases' = canvases
            /\ activeCanvasId' = activeCanvasId
            /\ nodes' = nodes /\ edges' = edges]_vars

\* C17: a deleteCanvas(id) that goes through (more than one canvas) removes
\* exactly one canvas, the one with that id, and keeps the others in order;
\* when id was active the first remaining canvas becomes active and its
\* stored nodes, edges and viewport become the live graph; otherwise the
\* active id and the live graph stay as they were.
C17_DeleteCanvasRemovesOne ==
    [][last'.op = "deleteCanvas" /\ last'.v
         => LET id == last'.c
                rest == SelectSeq(canvases, LAMBDA c : c.id # id)
            IN  /\ isLoaded'
                /\ Len(canvases') = Len(canvases) - 1
                /\ canvases' = rest
                /\ IF id = activeCanvasId
                   THEN /\ activeCanvasId' = rest[1].id
                        /\ nodes' = rest[1].nodes
                        /\ edges' = rest[1].edges
                        /\ viewport' = rest[1].viewport
                   ELSE /\ activeCanvasId' = activeCanvasId
                        /\ nodes' = nodes /\ edges' = edges]_vars

\* C18: newCanvas() leaves the canvas that was active holding the live graph
\* as it was, appends one canvas without nodes and edges, makes it active and
\* empties the live graph; every canvas that existed keeps its nodes and
\* edges, the flushed ones for the canvas that was active.
C18_NewCanvasKeepsOthers ==
    [][last'.op = "newCanvas"
         => /\ Len(canvases') = Len(canvases) + 1
            /\ canvases'[Len(canvases')].nodes = <<>>
            /\ canvases'[Len(canvases')].edges = <<>>
            /\ activeCanvasId' = canvases'[Len(canvases')].id
            /\ nodes' = <<>> /\ edges' = <<>>
            /\ \A i \in 1..Len(canvases) :
                  IF canvases[i].id = activeCanvasId
                  THEN /\ canvases'[i].nodes = nodes
                       /\ canvases'[i].edges = edges
                       /\ canvases'[i].viewport = viewport
                  ELSE /\ canvases'[i].nodes = canvases[i].nodes
                       /\ canvases'[i].edges = canvases[i].edges]_vars

\* C19: the ids of the canvases in the collection are pairwise distinct.
C19_CanvasIdsDistinct ==
    \A i, j \in 1..Len(canvases) : canvases[i].id = canvases[j].id => i = j

\* the source of the first edge, in edge-list order, that points at x
HasParent(eds, x) == \E k \in 1..Len(eds) : eds[k].target = x
FirstParent(eds, x) ==
    eds[CHOOSE k \in 1..Len(eds) :
          /\ eds[k].target = x
          /\ \A j \in 1..(k - 1) : eds[j].target # x].source

\* chain is the ancestor chain of id: it ends with the parent of id, each
\* entry is followed by its child, it starts at an entry with no incoming
\* edge, every entry is a node of the graph and none is id itself
IsAncestorChain(nds, eds, id, chain) ==
    IF ~HasParent(eds, id) THEN chain = <<>>
    ELSE /\ chain # <<>>
         /\ chain[Len(chain)].id = FirstParent(eds, id)
         /\ \A k \in 1..(Len(chain) - 1) :
               /\ HasParent(eds, chain[k + 1].id)
               /\ chain[k].id = FirstParent(eds, chain[k + 1].id)
         /\ ~HasParent(eds, chain[1].id)
         /\ \A k \in 1..Len(chain) : Includes(nds, chain[k]) /\ chain[k].id # id

\* C20: a generate request builds the ancestor chain of its node, ordered
\* from the root down to the parent: it follows the first incoming edge in
\* edge-list order, stops at a node with no incoming edge, and leaves the
\* node's own payload out of the chain.
C20_AncestorChain ==
    [][last'.op = "generate" =>
         /\ last'.v
         /\ IsAncestorChain(nodes, edges, last'.a, last'.chain)]_vars

\* C20, what a returned walk yields: whenever the loop ends, the chain is
\* the ancestor chain
C20_ReturnedChainIsAncestorChain ==
    [][last'.op = "generate" /\ last'.v =>
         IsAncestorChain(nodes, edges, last'.a, last'.chain)]_vars

\* C20 witness: a chain of two ancestors was built
C20_Witness == last.op = "generate" /\ last.v /\ Len(last.chain) >= 2

(***************************************************************************)
(* C21..C30                                                                *)
(***************************************************************************)
\* C21: collapse is idempotent: collapse(N, v) called twice in a row with
\* the same value v leaves the graph as the first call left it.
C21_CollapseIdempotent ==
    [][(/\ last.op = "collapse" /\ last'.op = "collapse"
        /\ last'.a = last.a /\ last'.v = last.v)
         => nodes' = nodes /\ edges' = edges]_vars

\* C21 witness: a node with two descendants was collapsed twice in a row
C21_Witness ==
    /\ last.op = "collapse" /\ last.same /\ last.pv /\ last.v
    /\ Cardinality(DescendantsOf(edges, last.a)) = 2
    /\ \A i \in 1..Len(nodes) :
          nodes[i].id \in DescendantsOf(edges, last.a) => nodes[i].hidden

\* C22: branch or collapse called with a node id that is not in the live
\* graph is a silent no-op: no node or edge is added, removed or modified.
C22_MissingNodeIsNoOp ==
    [][(last'.op \in {"branch", "collapse"} /\ ~HasNode(nodes, last'.a))
         => nodes' = nodes /\ edges' = edges]_vars

\* C22 witness: a collapse named a node that is not there, on a full graph
\* with an edge and a collapsed node, so there was something to change
C22_Witness ==
    /\ last.op = "collapse" /\ ~HasNode(nodes, last.a) /\ last.v
    /\ edges # <<>> /\ Len(nodes) = MaxNodes
    /\ \E i \in 1..Len(nodes) : nodes[i].collapsed /\ nodes[i].collapsedCount >= 1

\* C23: when a research run fails, the research node ends with status
\* 'error', a status from which the user can start the research again, and
\* the failure changes neither the node set nor the edge set.
C23_FailedRunEndsInError ==
    [][(last'.op = "researchEnd" /\ last'.v)
         => /\ \A i \in 1..Len(nodes') :
                  nodes'[i].id = last'.a => nodes'[i].status = "error"
            /\ Len(nodes') = Len(nodes)
            /\ \A i \in 1..Len(nodes) : nodes'[i].id = nodes[i].id
            /\ edges' = edges]_vars

\* C23, the part that holds: a failed run changes no node id and no edge,
\* and leaves the error message on the node
C23_FailedRunKeepsGraph ==
    [][(last'.op = "researchEnd" /\ last'.v)
         => /\ Len(nodes') = Len(nodes)
            /\ \A i \in 1..Len(nodes) :
                  /\ nodes'[i].id = nodes[i].id
                  /\ nodes[i].id = last'.a => nodes'[i].error = "err"
                  /\ nodes[i].id # last'.a => nodes'[i] = nodes[i]
            /\ edges' = edges]_vars

\* the title requests made for canvas c
TitleRequestsFor(c) == {k \in 1..Len(titleRequests) : titleRequests[k].canvas = c}

\* C24: auto-titling issues at most one title-generation request per
\* canvas, whatever node changes, canvas switches and re-renders happen
\* while the canvas keeps a default title.
C24_AtMostOneTitleRequest ==
    \A k \in 1..Len(titleRequests) :
        Cardinality(TitleRequestsFor(titleRequests[k].canvas)) <= 1

\* C24 witness: the active canvas was asked a title for, the request failed
\* and left a default title, its root has an answer, and the user went on
\* to the other canvas, got an answer and a title request there, and came back
C24_Witness ==
    /\ last.op = "selectCanvas" /\ last.v
    /\ HasCanvas(canvases, activeCanvasId)
    /\ startsWithNewCanvas(FindCanvas(canvases, activeCanvasId).title)
    /\ HasAnsweredRoot(nodes)
    /\ \E k \in 1..Len(titleRequests) :
          titleRequests[k].canvas = activeCanvasId /\ ~titleRequests[k].pending
    /\ Len(titleRequests) = 2

\* C25: when the title-generation call fails, times out or has no API key,
\* the title of the canvas is left exactly as it was.
C25_FailedTitleKeepsTitle ==
    [][(last'.op = "titleArrived" /\ last'.v)
         => /\ Len(canvases') = Len(canvases)
            /\ \A i \in 1..Len(canvases) : canvases'[i].title = canvases[i].title]_vars

\* C25, what the fallback does leave alone: the canvases other than the one
\* asked for, and everything of that one but its title
C25_FailedTitleKeepsTheRest ==
    [][(last'.op = "titleArrived" /\ last'.v)
         => /\ Len(canvases') = Len(canvases)
            /\ \A i \in 1..Len(canvases) :
                  /\ [canvases'[i] EXCEPT !.title = canvases[i].title] = canvases[i]
                  /\ canvases[i].id # last'.c => canvases'[i] = canvases[i]
                  /\ canvases[i].id = last'.c => startsWithNewCanvas(canvases'[i].title)]_vars

\* the rectangles of two nodes, one of them widened by the padding, meet
PaddedOverlap(m, n) ==
    LET gapX == IF m.position[1] <= n.position[1]
                THEN n.position[1] - (m.position[1] + NODE_SIZES[m.type].width)
                ELSE m.position[1] - (n.position[1] + NODE_SIZES[n.type].width)
        gapY == IF m.position[2] <= n.position[2]
                THEN n.position[2] - (m.position[2] + NODE_SIZES[m.type].height)
                ELSE m.position[2] - (n.position[2] + NODE_SIZES[n.type].height)
    IN  gapX <= Padding /\ gapY <= Padding

\* C26: a standalone node added to a non-empty canvas overlaps (footprint
\* of the variant, with the 50px padding) none of the nodes already there,
\* unless the fallback placed it after every candidate offset overlapped.
C26_PlacementNoOverlap ==
    [][(last'.op = "addNode" /\ nodes'[Len(nodes')].placed # 0)
         => \A i \in 1..Len(nodes) : ~PaddedOverlap(nodes'[Len(nodes')], nodes[i])]_vars

\* C26 witness: a third node was placed at a candidate offset other than
\* the first, the first being taken
C26_Witness ==
    /\ last.op = "addNode" /\ Len(nodes) = 3
    /\ nodes[3].placed > 1

\* C27: the ancestor-chain walk terminates on every finite node and edge
\* list, an edge list with a directed cycle through the ancestors of the
\* starting node included.
C27_WalkTerminates ==
    [][last'.op = "generate" => last'.v]_vars

\* C27, where the walk does end: on an edge list whose first-parent chain
\* from the node does not come back to a node it has left
RECURSIVE FirstParentChainEnds(_, _, _)
FirstParentChainEnds(eds, x, left) ==
    \/ ~HasParent(eds, x)
    \/ /\ FirstParent(eds, x) \notin left \cup {x}
       /\ FirstParentChainEnds(eds, FirstParent(eds, x), left \cup {x})

C27_WalkEndsUnlessChainCycles ==
    [][last'.op = "generate" => (last'.v <=> FirstParentChainEnds(edges, last'.a, {}))]_vars

C29_WitnessCycle ==
    /\ last.op = "collapse"
    /\ \E i \in 1..Len(edges) :
          /\ edges[i].target = last.a /\ edges[i].source # last.a
          /\ Reaches(edges, last.a, edges[i].source)
    /\ Cardinality(Descendants(edges, last.a).nodeIds) = 2

C28_ConnectAcceptedIffNoPath ==
    [][last'.op = "connect"
         => /\ last'.v <=> ~Reaches(edges, last'.b, last'.a)
            /\ last'.v => \E i \in 1..Len(edges') :
                             edges'[i].source = last'.a /\ edges'[i].target = last'.b]_vars

\* C28 witness: an accepted connect gave the target its second incoming
\* edge and closed a second path from a common ancestor to it
C28_Witness ==
    /\ last.op = "connect" /\ last.v
    /\ \E i \in 1..Len(edges) :
          /\ edges[i].target = last.b /\ edges[i].source # last.a
          /\ Reaches(edges, edges[i].source, last.a)
    /\ edges[Len(edges)].source = last.a /\ edges[Len(edges)].target = last.b

\* the node lists of the canvas records
CanvasNodeLists(cs) == [k \in 1..Len(cs) |-> cs[k].nodes]

\* C30: when the active canvas was switched while a chat generation was in
\* flight, the completion still targets the node id it was started for: it
\* writes the response on the live nodes carrying that id if the canvas now
\* active has one, and otherwise changes no node of any canvas.
C30_SwitchedCompletionTargetsItsId ==
    [][(last'.op = "generated" /\ last'.v /\ last'.c # activeCanvasId)
         => IF HasNode(nodes, last'.a)
            THEN /\ Len(nodes') = Len(nodes)
                 /\ \A i \in 1..Len(nodes) :
                       nodes'[i] = IF nodes[i].id = last'.a
                                   THEN [nodes[i] EXCEPT !.aiResponse = last'.q]
                                   ELSE nodes[i]
            ELSE /\ nodes' = nodes
                 /\ CanvasNodeLists(canvases') = CanvasNodeLists(canvases)]_vars

\* C30 witness: a generation started in one canvas completed in the other,
\* whose root carries the same id and now holds the response, while the
\* record of the canvas it was started in has none
C30_Witness ==
    /\ last.op = "generated" /\ last.v /\ last.c # activeCanvasId
    /\ HasNode(nodes, last.a)
    /\ \A i \in 1..Len(nodes) : nodes[i].id = last.a => nodes[i].aiResponse = last.q
    /\ HasCanvas(canvases, last.c)
    /\ \A i \in 1..Len(FindCanvas(canvases, last.c).nodes) :
          FindCanvas(canvases, last.c).nodes[i].aiResponse = ""

\* C30, the other case: the canvas now active has no node with the id
C30_WitnessNoNode ==
    /\ last.op = "generated" /\ last.v /\ last.c # activeCanvasId
    /\ ~HasNode(nodes, last.a)
    /\ HasCanvas(canvases, last.c)
    /\ HasNode(FindCanvas(canvases, last.c).nodes, last.a)

(***************************************************************************)
(* C31..C40                                                                *)
(***************************************************************************)
\* every node below a collapsed node of nds is hidden
CollapsedHideTheirDescendants(nds, eds) ==
    \A i, j \in 1..Len(nds) :
        (nds[i].collapsed /\ nds[j].id \in DescendantsOf(eds, nds[i].id)) => nds[j].hidden

\* C31: whenever a node has collapsed = true, every node reachable from it
\* along outgoing edges is hidden, after any interleaving of collapse and
\* expand operations on different nodes.
C31_CollapsedHidesDescendants == CollapsedHideTheirDescendants(nodes, edges)

\* what does hold: a collapse keeps the property, only an expand breaks it
C31_CollapseKeepsIt ==
    [][(last'.op = "collapse" /\ last'.v /\ CollapsedHideTheirDescendants(nodes, edges))
         => CollapsedHideTheirDescendants(nodes', edges')]_vars

\* an ancestor was expanded while a node below it, with a descendant of its
\* own, stays collapsed
C31_ExpandAboveCollapsed ==
    /\ last.op = "collapse" /\ ~last.v
    /\ \E i, j \in 1..Len(nodes) :
          /\ nodes[i].id \in DescendantsOf(edges, last.a)
          /\ nodes[i].collapsed
          /\ nodes[j].id \in DescendantsOf(edges, nodes[i].id)
          /\ ~nodes[j].hidden

\* every hidden node of nds is below a node of nds that is collapsed
HiddenHaveCollapsedAncestor(nds, eds) ==
    \A j \in 1..Len(nds) :
        nds[j].hidden => \E i \in 1..Len(nds) :
                            nds[i].collapsed /\ nds[j].id \in DescendantsOf(eds, nds[i].id)

\* C32: a node is hidden only while at least one of its ancestors is in the
\* graph with collapsed = true; no sequence of collapse, expand, branch,
\* connect and deleteNode leaves a hidden node that no collapsed ancestor
\* accounts for.
C32_HiddenHasCollapsedAncestor == HiddenHaveCollapsedAncestor(nodes, edges)

\* what does hold: collapse, expand and connect keep the property, only a
\* delete breaks it
C32_OnlyDeleteBreaksIt ==
    [][(last'.op # "deleteNode" /\ HiddenHaveCollapsedAncestor(nodes, edges))
         => HiddenHaveCollapsedAncestor(nodes', edges')]_vars

\* a collapsed node was deleted and a node it had hidden is still there,
\* hidden, with no node above it
C32_OrphanedHidden ==
    /\ last.op = "deleteNode"
    /\ \E j \in 1..Len(nodes) :
          /\ nodes[j].hidden
          /\ \A k \in 1..Len(edges) : edges[k].target # nodes[j].id

\* the cached count of every node of nds is the number of its descendants
\* when the node is collapsed and 0 when it is not
CountsAreCurrent(nds, eds) ==
    \A i \in 1..Len(nds) :
        nds[i].collapsedCount = IF nds[i].collapsed
                                THEN Cardinality(DescendantsOf(eds, nds[i].id))
                                ELSE 0

\* C33: whenever a node has collapsed = true its collapsedCount equals the
\* number of its current descendants, also after later branch, connect or
\* deleteNode operations change the subtree below it; when collapsed is
\* false collapsedCount is 0.
C33_CollapsedCountIsCurrent == CountsAreCurrent(nodes, edges)

\* what does hold: collapse and expand keep the counts current
C33_CollapseKeepsCounts ==
    [][(last'.op = "collapse" /\ CountsAreCurrent(nodes, edges))
         => CountsAreCurrent(nodes', edges')]_vars

\* a connect put a further node below a collapsed node, whose count is the
\* one of the time it was collapsed
C33_StaleCountAfterConnect ==
    /\ last.op = "connect" /\ last.v
    /\ \E i \in 1..Len(nodes) :
          /\ nodes[i].collapsed
          /\ last.b \in DescendantsOf(edges, nodes[i].id)
          /\ nodes[i].collapsedCount < Cardinality(DescendantsOf(edges, nodes[i].id))

\* every edge of eds joins two nodes of nds
NoDanglingEdges(nds, eds) ==
    \A k \in 1..Len(eds) : HasNode(nds, eds[k].source) /\ HasNode(nds, eds[k].target)

\* C34: no dangling edges: after any sequence of addStandaloneNode, branch,
\* connect and deleteNode operations, every edge's source and target are
\* ids of nodes present in the live graph.
C34_NoDanglingEdges == NoDanglingEdges(nodes, edges)

\* C34 witness: a chat node that was branched from is alone again: the node
\* the branch made was deleted and the edge to it went with it
C34_Witness ==
    /\ last.op = "deleteNode"
    /\ Len(nodes) = 1 /\ nodes[1].id # last.a
    /\ nodes[1].highlights # <<>>
    /\ edges = <<>>

\* C35: the node a branch creates is a chat node that carries the source's
\* reasoning mode and search-enabled flag when the source payload has them
\* and the defaults 'off' and false otherwise (research and note sources);
\* it is placed at x offset 800 from a research source and 600 from any
\* other source.
C35_BranchInheritsSettings ==
    [][(last'.op = "branch" /\ last'.v)
         => LET source == GetNode(nodes, last'.a)
                new == nodes'[Len(nodes')]
            IN  /\ Len(nodes') = Len(nodes) + 1
                /\ new.id = last'.b /\ new.type = "chatNode"
                /\ IF "reasoningMode" \in DOMAIN source
                   THEN new.reasoningMode = source.reasoningMode
                   ELSE new.reasoningMode = "off"
                /\ IF "isSearchEnabled" \in DOMAIN source
                   THEN new.isSearchEnabled = source.isSearchEnabled
                   ELSE new.isSearchEnabled = FALSE
                /\ source.type \in {"researchNode", "noteNode"}
                      => new.reasoningMode = "off" /\ new.isSearchEnabled = FALSE
                /\ new.position[1] - source.position[1]
                      = IF source.type = "researchNode" THEN 800 ELSE 600]_vars

\* C35 witness: a branch from a stored chat node whose payload has 'auto'
\* and the search flag: the new node has both and stands 600 to the right
C35_Witness ==
    /\ last.op = "branch" /\ last.v
    /\ Len(nodes) = 2 /\ nodes[1].id = last.a /\ nodes[2].id = last.b /\ last.a # last.b
    /\ nodes[1].type = "chatNode" /\ "reasoningMode" \in DOMAIN nodes[1]
    /\ nodes[1].reasoningMode = "auto" /\ nodes[1].isSearchEnabled
    /\ nodes[2].reasoningMode = "auto" /\ nodes[2].isSearchEnabled
    /\ nodes[2].position[1] = nodes[1].position[1] + 600

\* C35, a research source: the new node has the defaults and stands 800 to
\* the right
C35_WitnessResearch ==
    /\ last.op = "branch" /\ last.v
    /\ Len(nodes) = 2 /\ nodes[1].type = "researchNode" /\ nodes[1].id = last.a
    /\ nodes[2].reasoningMode = "off" /\ ~nodes[2].isSearchEnabled
    /\ nodes[2].position[1] = nodes[1].position[1] + 800

\* C36: for a single chat node at most one generation request is in flight
\* at any time: no generation starts, by the button or by the Enter key,
\* while the node's previous generation has not finished, so two streams
\* never write the same node's response concurrently.
C36_OneRequestPerNode ==
    \A g, h \in generating : (g.node = h.node /\ g.canvas = h.canvas) => g = h

\* two requests of one live chat node are in flight in the canvas they
\* were started in: each will write its text on that node
C36_TwoStreamsOneNode ==
    \E g, h \in generating :
        /\ g # h /\ g.node = h.node
        /\ g.canvas = activeCanvasId /\ h.canvas = activeCanvasId
        /\ HasNode(nodes, g.node)

\* C37: an auto-generated title is applied only to a canvas whose title is
\* still the system-generated default when the title resolves: a rename
\* done while the request was in flight is never overwritten and a canvas
\* deleted meanwhile is not re-created.
C37_TitleOnlyOverDefault ==
    [][(last'.op = "titleArrived" /\ ~last'.v)
         => /\ Len(canvases') = Len(canvases)
            /\ \A i \in 1..Len(canvases) :
                  /\ canvases'[i].id = canvases[i].id
                  /\ ~startsWithNewCanvas(canvases[i].title)
                        => canvases'[i].title = canvases[i].title]_vars

\* what does hold: the title goes to the canvases carrying the id of the
\* request and to no other, and no canvas is added or removed, so a deleted
\* canvas stays deleted
C37_TitleGoesToItsCanvasOnly ==
    [][last'.op = "titleArrived"
         => /\ Len(canvases') = Len(canvases)
            /\ \A i \in 1..Len(canvases) :
                  canvases'[i] = IF canvases[i].id = last'.c
                                 THEN [canvases[i] EXCEPT !.title = last'.q]
                                 ELSE canvases[i]]_vars

\* a title arrived for a canvas that was deleted while it was asked for
C37_TitleForDeletedCanvas ==
    /\ last.op = "titleArrived" /\ ~HasCanvas(canvases, last.c)
    /\ Len(canvases) = 1

\* C38: no write to the workspace storage key happens before the initial
\* load has completed, and no write ever stores an empty canvas list, so a
\* stored workspace is never overwritten by the empty initial state.
C38_NoWriteBeforeLoadNorEmpty ==
    [][(storage'.cur # storage.cur /\ storage'.cur.kind # "absent")
         => /\ isLoaded'
            /\ storage'.cur.kind = "ok"
            /\ Len(storage'.cur.canvases) > 0
            /\ storage'.cur.canvases = canvases']_vars

\* C38 witness: the page is loaded and an import has left the canvas list
\* empty; the store effect ran and the key still holds the workspace
\* written before
C38_Witness ==
    /\ isLoaded /\ canvases = <<>>
    /\ last.op = "importV2" /\ last.v
    /\ storage.cur.kind = "ok" /\ Len(storage.cur.canvases) > 0

\* at most one step of the update is running, the steps before it are done
\* and the steps after it pending
OneRunningStep(update) ==
    \A k \in 1..Len(update) :
        update[k] = "running"
            => /\ \A i \in 1..(k - 1) : update[i] = "done"
               /\ \A j \in (k + 1)..Len(update) : update[j] = "pending"

\* C39: in every step update a research run emits, at most one step is
\* 'running', every step before it is 'done' and every step after it is
\* 'pending'; a run that ends without error emits a final update in which
\* all four steps are 'done'.
C39_StepUpdatesInOrder ==
    [][last'.op \in {"search", "researchStep", "researchEnd"}
         => /\ \A n \in 1..Len(last'.chain) :
                  Len(last'.chain[n]) = 4 /\ OneRunningStep(last'.chain[n])
            /\ (last'.op = "researchEnd" /\ ~last'.v)
                  => /\ last'.chain # <<>>
                     /\ last'.chain[Len(last'.chain)] = <<"done", "done", "done", "done">>]_vars

\* C39 witness: a run went through its four stages and ended without error,
\* and the node holds the final update
C39_Witness ==
    /\ last.op = "researchEnd" /\ ~last.v
    /\ last.chain = << <<"done", "done", "done", "done">> >>
    /\ \E i \in 1..Len(nodes) :
          nodes[i].id = last.a /\ nodes[i].steps = <<"done", "done", "done", "done">>

\* C39, a run that failed in the search: the last update it emitted has the
\* second step running
C39_WitnessFailed ==
    /\ last.op = "researchEnd" /\ last.v
    /\ \E i \in 1..Len(nodes) :
          nodes[i].id = last.a /\ nodes[i].steps = <<"done", "running", "pending", "pending">>

\* C40: when the canvas holds exactly one node and the zoom is 1, a
\* standalone node is placed at one of the probed candidate offsets around
\* that node and not at the fallback position: no candidate is rejected for
\* overlapping the reference node itself.
C40_SingleNodeTakesCandidate ==
    [][(last'.op = "addNode" /\ last'.v /\ Len(nodes) = 1)
         => LET new == nodes'[Len(nodes')]
                offsets == searchOffsets(nodes[1].type, new.type, 30)
            IN  /\ new.placed \in 1..Len(offsets)
                /\ new.position = <<nodes[1].position[1] + offsets[new.placed][1],
                                    nodes[1].position[2] + offsets[new.placed][2]>>]_vars

\* C40, what the code does at zoom 1 beside a single node: every candidate
\* is within the padding of the reference node and the fallback places the
\* new node
C40_SingleNodeTakesFallback ==
    [][(last'.op = "addNode" /\ last'.v /\ Len(nodes) = 1)
         => LET new == nodes'[Len(nodes')]
            IN  /\ new.placed = 0
                /\ new.position[1] = nodes[1].position[1] + NODE_SIZES[nodes[1].type].width + 300
                /\ new.position[2] - nodes[1].position[2] \in RandomOffsets]_vars

\* C40, zoomed out to 0.5 or 0.25 the spacing exceeds the padding and the
\* first candidate, to the right of the single node, is taken
C40_ZoomedOutTakesFirstCandidate ==
    [][(last'.op = "addNode" /\ ~last'.v /\ Len(nodes) = 1)
         => nodes'[Len(nodes')].placed = 1]_vars

\* C40, the case: a second node was added at zoom 1 and placed by the fallback
C40_FallbackReached ==
    /\ last.op = "addNode" /\ last.v /\ Len(nodes) = 2
    /\ nodes[2].placed = 0

====
